---- MODULE Spec2Model ----
(***************************************************************************)
(* Order lifecycle, checkout and cart of the storefront backend.           *)
(*                                                                         *)
(* The backend is an asynchronous request-per-call HTTP service: a handler *)
(* runs without interruption between two awaits, and every await is one    *)
(* single-document database operation or one payment-provider call.  Each  *)
(* action below is therefore one await of one handler together with the    *)
(* synchronous code that follows it up to the next await; the handlers of  *)
(* different requests interleave at exactly these points.  A request's     *)
(* arrival is taken together with its first await: nothing can observe a   *)
(* handler between its call and its first database or provider operation.  *)
(*                                                                         *)
(* Money is kept in integer cents.  Timestamps (new Date()) are left out   *)
(* of the status history and the cart items.                               *)
(***************************************************************************)
EXTENDS Integers, Sequences, FiniteSets, TLC

(***************************************************************************)
(* Bounds of the model.                                                    *)
(***************************************************************************)
NumProcs == 2          \* requests in flight at the same time
MaxIntents == 2        \* payment intents the provider is asked to create
MaxOrders == 1         \* orders whose status the administrators change
MaxQty == 2            \* largest quantity of one cart line
MaxBulk == 2           \* longest orderIds list of a bulk update
MaxVersion == 2        \* largest document version (__v) of a cart
MaxHistory == 4        \* longest status history of an order
MaxTicks == 3          \* times the clock is advanced

Procs == 1..NumProcs
Users == {"u1", "u2"}

\* The accounts: the two customers and the administrator the shop starts with.
Accounts == Users \cup {"a1"}
Roles == {"customer", "admin"}
Products == {1, 2}
Addresses == {"home"}

OrderStatuses == {"pending", "processing", "shipped", "delivered", "cancelled"}

\* Optional values (undefined / null) are sequences of length 0 or 1.
None == <<>>
Some(x) == <<x>>
IsSome(o) == Len(o) > 0
Get(o) == o[1]

NoteInputs == {None, Some(""), Some("Left warehouse")}
TrackingInputs == {None, Some([carrier |-> "UPS", trackingNumber |-> "1Z999"])}

VARIABLES
  orders,     \* the orders collection: sequence of documents, _id = index
  carts,      \* the carts collection: userId -> None or Some(cart document)
  intents,    \* the provider's payment intents: sequence, id = index
  req,        \* per request slot: the handler running in it and its locals
  cache,      \* productCache's Map: key -> None or Some([data, expiry])
  now,        \* Date.now(), in milliseconds since the process started
  sweepDue,   \* the time at which the cleanup timer is due next
  latest,     \* history: per key, the last set since the key was deleted
  ticks,      \* the number of times the clock has been advanced
  wishlists,  \* the wishlists collection: sequence of documents, _id = index
  users,      \* the user collection: id -> None or Some([role])
  sessions    \* per account: the session data its browser presents, or None

cacheVars == <<cache, now, sweepDue, latest, ticks>>

accountVars == <<wishlists, users, sessions>>

vars == <<orders, carts, intents, req, cache, now, sweepDue, latest, ticks,
          wishlists, users, sessions>>

(***************************************************************************)
(* Pure helpers.                                                           *)
(***************************************************************************)
RECURSIVE SumQty(_)
SumQty(items) ==
  IF items = <<>> THEN 0 ELSE items[1].quantity + SumQty(Tail(items))

RECURSIVE SumPrice(_)
SumPrice(items) ==
  IF items = <<>> THEN 0
  ELSE items[1].price * items[1].quantity + SumPrice(Tail(items))

\* Math.round(subtotal * 0.1 * 100) / 100 on a subtotal held in cents: a
\* tenth of the subtotal, rounded to the nearest cent.  On a subtotal that
\* ends in 5 cents the double product lies on either side of the half
\* (0.05 gives 0.01, 0.35 gives 0.03); the prices below are whole dollars,
\* whose tenth is exact.
TaxOf(subtotal) == (subtotal + 5) \div 10

ShippingCost == 0

\* The price the storefront shows for a product, in cents.
PriceOf(productId) == IF productId = 1 THEN 1000 ELSE 500

TotalOf(subtotal) == subtotal + TaxOf(subtotal) + ShippingCost

\* items.findIndex(item => item.productId === productId); 0 stands for -1.
RECURSIVE FindIndexFrom(_, _, _)
FindIndexFrom(items, productId, i) ==
  IF i > Len(items) THEN 0
  ELSE IF items[i].productId = productId THEN i
  ELSE FindIndexFrom(items, productId, i + 1)

FindIndex(items, productId) == FindIndexFrom(items, productId, 1)

\* A transition table that lets a shipped order go back to processing.
ValidTransitionsReopen(s) ==
  CASE s = "pending" -> {"processing", "cancelled"}
    [] s = "processing" -> {"shipped", "cancelled"}
    [] s = "shipped" -> {"delivered", "cancelled", "processing"}
    [] s = "delivered" -> {}
    [] s = "cancelled" -> {}

\* validTransitions: the outbound adjacency of the order status.
ValidTransitions(s) ==
  CASE s = "pending" -> {"processing", "cancelled"}
    [] s = "processing" -> {"shipped", "cancelled"}
    [] s = "shipped" -> {"delivered", "cancelled"}
    [] s = "delivered" -> {}
    [] s = "cancelled" -> {}

\* The bulk update's table after the two copies have drifted apart: a
\* shipped order can no longer be cancelled in bulk.
BulkValidTransitionsDrifted(s) ==
  CASE s = "pending" -> {"processing", "cancelled"}
    [] s = "processing" -> {"shipped", "cancelled"}
    [] s = "shipped" -> {"delivered"}
    [] s = "delivered" -> {}
    [] s = "cancelled" -> {}

\* validTransitions of bulkUpdateOrderStatus: its own copy of the table.
BulkValidTransitions(s) ==
  CASE s = "pending" -> {"processing", "cancelled"}
    [] s = "processing" -> {"shipped", "cancelled"}
    [] s = "shipped" -> {"delivered", "cancelled"}
    [] s = "delivered" -> {}
    [] s = "cancelled" -> {}

\* `Order ${status}`
OrderNote(s) ==
  CASE s = "pending" -> "Order pending"
    [] s = "processing" -> "Order processing"
    [] s = "shipped" -> "Order shipped"
    [] s = "delivered" -> "Order delivered"
    [] s = "cancelled" -> "Order cancelled"

\* `Bulk update: Order ${status}`
BulkNote(s) ==
  CASE s = "pending" -> "Bulk update: Order pending"
    [] s = "processing" -> "Bulk update: Order processing"
    [] s = "shipped" -> "Bulk update: Order shipped"
    [] s = "delivered" -> "Bulk update: Order delivered"
    [] s = "cancelled" -> "Bulk update: Order cancelled"

\* The caller's note is dropped.
NoteOrFallbackOnly(note, fallback) == fallback

\* note || fallback: undefined and the empty string are falsy.
NoteOr(note, fallback) ==
  IF IsSome(note) /\ Get(note) # "" THEN Get(note) ELSE fallback

\* OrderModel.findOne({ paymentIntentId }): the ids of the matching orders.
OrdersOfIntent(pi) == {i \in 1..Len(orders) : orders[i].paymentIntentId = pi}

(***************************************************************************)
(* Request slots.                                                          *)
(***************************************************************************)
\* code is the HTTP status where the handler sets it itself, and 0 where the
\* status is left to res.json's default or to the error handler; found holds
\* the ids of the orders a listing returns.
NoResponse == [kind |-> "none", error |-> "", orderId |-> 0, from |-> "",
               to |-> "", updated |-> 0, failed |-> 0, errors |-> <<>>,
               code |-> 0, found |-> {}, added |-> FALSE]

IdleReq ==
  [op |-> "none", pc |-> "idle", userId |-> "", pi |-> 0, address |-> "",
   orderIds |-> <<>>, idx |-> 1, status |-> "", note |-> None,
   trackingInfo |-> None, cart |-> None, item |-> None, amount |-> 0,
   updated |-> 0, failed |-> 0, errors |-> <<>>, before |-> <<>>,
   wish |-> None, session |-> None, target |-> "", role |-> "",
   route |-> "", res |-> NoResponse]

\* A handler's last step writes the response (res.json) in the same run of
\* the event loop, so no other handler runs while a response is being sent.
Quiet == \A q \in Procs : req[q].pc # "done"

\* A handler waiting at the await named pc.
At(p, pc) == Quiet /\ req[p].pc = pc

Free(p) == At(p, "idle")

Begin(op) == [IdleReq EXCEPT !.op = op]

\* The response to the request r: its arguments stay, its locals are gone.
Done(r, response) ==
  [r EXCEPT !.pc = "done", !.res = response, !.cart = None, !.amount = 0,
            !.idx = 1, !.updated = 0, !.failed = 0, !.errors = <<>>,
            !.before = <<>>, !.wish = None]

Ok(orderId) == [NoResponse EXCEPT !.kind = "ok", !.orderId = orderId]

Fail(msg) == [NoResponse EXCEPT !.kind = "error", !.error = msg]

\* Only a missing cart counts as empty.
CartIsMissing(cart) == ~IsSome(cart)

\* !cart || cart.items.length === 0
CartIsEmpty(cart) == ~IsSome(cart) \/ Len(Get(cart).items) = 0

\* Any payment intent is accepted.
PaymentCompletedAlways(intent) == TRUE

\* paymentIntent.status === 'succeeded'
PaymentCompleted(intent) == intent.status = "succeeded"

EmptyCartDoc == [items |-> <<>>, totalItems |-> 0, totalPrice |-> 0, v |-> 0]

(***************************************************************************)
(* Cart service: addToCart.                                                *)
(***************************************************************************)
CartQty(u) == IF IsSome(carts[u]) THEN SumQty(Get(carts[u]).items) ELSE 0

CartVersion(u) == IF IsSome(carts[u]) THEN Get(carts[u]).v ELSE 0

\* addToCart(userId, input) up to Cart.getOrCreate's
\* await this.findOne({ userId }).
AtcFindOne(p, u, productId, quantity, price) ==
  /\ Free(p)
  /\ CartQty(u) + quantity <= MaxQty
  /\ CartVersion(u) < MaxVersion
  /\ LET r == [Begin("addToCart") EXCEPT !.userId = u,
                 !.item = Some([productId |-> productId, quantity |-> quantity,
                                price |-> price])]
     IN req' = [req EXCEPT ![p] =
          IF IsSome(carts[u])
            THEN [r EXCEPT !.pc = "atc_save", !.cart = carts[u]]
            ELSE [r EXCEPT !.pc = "atc_create"]]
  /\ UNCHANGED <<orders, carts, intents>>
  /\ UNCHANGED cacheVars
  /\ UNCHANGED accountVars

\* The cart returned by getOrCreate: getCart answers with it, addToCart
\* goes on to change and save it.
AfterGetOrCreate(r, cart) ==
  IF r.op = "getCart" THEN Done(r, Ok(0))
  ELSE [r EXCEPT !.pc = "atc_save", !.cart = cart]

\* Cart.getOrCreate: await this.create({ userId, items: [] }); userId is a
\* unique index, so a second insert for the user is a duplicate-key error.
AtcCreate(p) ==
  /\ At(p, "atc_create")
  /\ LET u == req[p].userId IN
       IF IsSome(carts[u])
         THEN /\ req' = [req EXCEPT ![p] = Done(req[p], Fail("E11000 duplicate key"))]
              /\ UNCHANGED carts
         ELSE /\ carts' = [carts EXCEPT ![u] = Some(EmptyCartDoc)]
              /\ req' = [req EXCEPT ![p] =
                   AfterGetOrCreate(req[p], Some(EmptyCartDoc))]
  /\ UNCHANGED <<orders, intents>>
  /\ UNCHANGED cacheVars
  /\ UNCHANGED accountVars

\* The items of the loaded document after addToCart's change to it.
AddedItems(items, item) ==
  LET i == FindIndex(items, item.productId) IN
    IF i > 0
      THEN [items EXCEPT ![i] = [@ EXCEPT !.quantity = @ + item.quantity,
                                          !.price = item.price]]
      ELSE Append(items, item)

\* $set of items.<i>.quantity and items.<i>.price on the stored array; an
\* index past the end of the stored array creates the element from the two
\* fields alone (productId 0 stands for the missing field).
SetLine(items, i, quantity, price) ==
  IF i <= Len(items)
    THEN [items EXCEPT ![i] = [@ EXCEPT !.quantity = quantity, !.price = price]]
    ELSE Append(items, [productId |-> 0, quantity |-> quantity, price |-> price])

\* The validator of a line's quantity: min: [1, ...].
ValidCartItems(items) == \A i \in 1..Len(items) : items[i].quantity >= 1

\* After addToCart has returned: the moveToCart controller goes on to read
\* the wishlist, the cart controller answers.
AfterAddToCart(r) ==
  IF r.op = "moveToCart" THEN [r EXCEPT !.pc = "mtc_getWishlist"]
  ELSE Done(r, Ok(0))

\* await cart.save(): the document is validated, the pre-save hook
\* recomputes the totals of the loaded document, then the changed paths are
\* written.  A changed line is written by position under the loaded version
\* (a VersionError when the stored version differs); a new line is a $push
\* that increments the version.
AtcSave(p) ==
  /\ At(p, "atc_save")
  /\ LET u == req[p].userId
         loaded == Get(req[p].cart)
         item == Get(req[p].item)
         i == FindIndex(loaded.items, item.productId)
         local == AddedItems(loaded.items, item)
         stored == Get(carts[u])
     IN
       IF ~ValidCartItems(local)
         THEN /\ req' = [req EXCEPT ![p] = Done(req[p], Fail("ValidationError"))]
              /\ UNCHANGED carts
       ELSE IF i > 0 /\ stored.v # loaded.v
         THEN /\ req' = [req EXCEPT ![p] = Done(req[p], Fail("VersionError"))]
              /\ UNCHANGED carts
         ELSE /\ carts' = [carts EXCEPT ![u] = Some(
                   [items |-> IF i > 0
                                THEN SetLine(stored.items, i, local[i].quantity,
                                             local[i].price)
                                ELSE Append(stored.items, item),
                    totalItems |-> SumQty(local),
                    totalPrice |-> SumPrice(local),
                    v |-> IF i > 0 THEN stored.v ELSE stored.v + 1])]
              /\ req' = [req EXCEPT ![p] = AfterAddToCart(req[p])]
  /\ UNCHANGED <<orders, intents>>
  /\ UNCHANGED cacheVars
  /\ UNCHANGED accountVars

(***************************************************************************)
(* Payment provider.                                                       *)
(***************************************************************************)
\* The customer completes the payment on the provider's side.
StripePay(i) ==
  /\ i \in 1..Len(intents)
  /\ Quiet
  /\ intents[i].status = "requires_payment_method"
  /\ intents' = [intents EXCEPT ![i].status = "succeeded"]
  /\ UNCHANGED <<orders, carts, req>>
  /\ UNCHANGED cacheVars
  /\ UNCHANGED accountVars

(***************************************************************************)
(* OrderService.createPaymentIntent                                        *)
(***************************************************************************)
IntentsInFlight == Cardinality({p \in Procs : req[p].pc = "cpi_create"})

\* createPaymentIntent(userId, shippingAddress): await Cart.findOne({ userId }),
\* the empty-cart check and the totals.
CpiFindCart(p, u, address) ==
  /\ Free(p)
  /\ LET cart == carts[u]
         r == [Begin("createPaymentIntent") EXCEPT !.userId = u]
     IN
       IF CartIsEmpty(cart)
         THEN req' = [req EXCEPT ![p] = Done(r, Fail("Cart is empty"))]
         ELSE /\ Len(intents) + IntentsInFlight < MaxIntents
              /\ req' = [req EXCEPT ![p] =
                   [r EXCEPT !.pc = "cpi_create",
                             !.amount = TotalOf(Get(cart).totalPrice)]]
  /\ UNCHANGED <<orders, carts, intents>>
  /\ UNCHANGED cacheVars
  /\ UNCHANGED accountVars

\* await stripe.paymentIntents.create({ amount, metadata: { userId, ... } })
CpiCreate(p) ==
  /\ At(p, "cpi_create")
  /\ intents' = Append(intents, [amount |-> req[p].amount,
                                 userId |-> req[p].userId,
                                 status |-> "requires_payment_method"])
  /\ req' = [req EXCEPT ![p] =
       Done(req[p], [Ok(0) EXCEPT !.orderId = Len(intents) + 1])]
  /\ UNCHANGED <<orders, carts>>
  /\ UNCHANGED cacheVars
  /\ UNCHANGED accountVars

(***************************************************************************)
(* OrderService.createOrder                                                *)
(***************************************************************************)
\* createOrder(userId, paymentIntentId, shippingAddress):
\* await stripe.paymentIntents.retrieve(paymentIntentId) and the status check.
CoRetrieve(p, u, pi, address) ==
  /\ Free(p)
  /\ LET r == [Begin("createOrder") EXCEPT !.userId = u, !.pi = pi,
                                           !.address = address]
     IN req' = [req EXCEPT ![p] =
          IF pi \notin 1..Len(intents)
            THEN Done(r, Fail("No such payment_intent"))
          ELSE IF ~PaymentCompleted(intents[pi])
            THEN Done(r, Fail("Payment not completed"))
          ELSE [r EXCEPT !.pc = "co_findExisting"]]
  /\ UNCHANGED <<orders, carts, intents>>
  /\ UNCHANGED cacheVars
  /\ UNCHANGED accountVars

\* The lookup of an existing order is skipped.
CoFindExistingSkipped(p) ==
  /\ At(p, "co_findExisting")
  /\ req' = [req EXCEPT ![p] = [req[p] EXCEPT !.pc = "co_findCart"]]
  /\ UNCHANGED <<orders, carts, intents>>
  /\ UNCHANGED cacheVars
  /\ UNCHANGED accountVars

\* await OrderModel.findOne({ paymentIntentId }): an existing order is returned.
CoFindExisting(p) ==
  /\ At(p, "co_findExisting")
  /\ req' = [req EXCEPT ![p] =
       IF OrdersOfIntent(req[p].pi) # {}
         THEN Done(req[p], Ok(CHOOSE i \in OrdersOfIntent(req[p].pi) :
                                \A j \in OrdersOfIntent(req[p].pi) : i <= j))
         ELSE [req[p] EXCEPT !.pc = "co_findCart"]]
  /\ UNCHANGED <<orders, carts, intents>>
  /\ UNCHANGED cacheVars
  /\ UNCHANGED accountVars

\* await Cart.findOne({ userId }) and the empty-cart check.
CoFindCart(p) ==
  /\ At(p, "co_findCart")
  /\ LET cart == carts[req[p].userId] IN
       req' = [req EXCEPT ![p] =
         IF CartIsEmpty(cart)
           THEN Done(req[p], Fail("Cart is empty"))
           ELSE [req[p] EXCEPT !.pc = "co_create", !.cart = cart]]
  /\ UNCHANGED <<orders, carts, intents>>
  /\ UNCHANGED cacheVars
  /\ UNCHANGED accountVars

\* cart.items.map(item => ({ productId, quantity, price, title, thumbnail }))
OrderItems(items) ==
  [i \in 1..Len(items) |-> [productId |-> items[i].productId,
                            quantity |-> items[i].quantity,
                            price |-> items[i].price]]

\* No history is passed: the schema's default.
InitialHistoryDefault == <<>>

\* The history written with a new order.
InitialHistory ==
  << [status |-> "pending", note |-> "Order placed"],
     [status |-> "processing", note |-> "Payment confirmed"] >>

\* The document passed to OrderModel.create.
NewOrder(u, pi, address, cart) ==
  [userId |-> u,
   items |-> OrderItems(cart.items),
   totalItems |-> cart.totalItems,
   subtotal |-> cart.totalPrice,
   tax |-> TaxOf(cart.totalPrice),
   shipping |-> ShippingCost,
   totalPrice |-> TotalOf(cart.totalPrice),
   shippingAddress |-> address,
   paymentIntentId |-> pi,
   paymentStatus |-> "paid",
   orderStatus |-> "processing",
   statusHistory |-> InitialHistory,
   trackingInfo |-> None]

\* The schema's validators on create: items is non-empty with quantities of
\* at least 1 and prices of at least 0, totalItems is at least 1.
ValidOrder(o) ==
  /\ Len(o.items) > 0
  /\ \A i \in 1..Len(o.items) : o.items[i].quantity >= 1 /\ o.items[i].price >= 0
  /\ o.totalItems >= 1
  /\ o.subtotal >= 0 /\ o.tax >= 0 /\ o.shipping >= 0 /\ o.totalPrice >= 0

\* No unique index on paymentIntentId.
UniqueIntentUnchecked(pi) == TRUE

\* The unique index on paymentIntentId.
UniqueIntent(pi) == OrdersOfIntent(pi) = {}

\* await OrderModel.create({...}).
CoCreate(p) ==
  /\ At(p, "co_create")
  /\ LET o == NewOrder(req[p].userId, req[p].pi, req[p].address, Get(req[p].cart)) IN
       IF ~ValidOrder(o)
         THEN /\ req' = [req EXCEPT ![p] = Done(req[p], Fail("ValidationError"))]
              /\ UNCHANGED orders
       ELSE IF ~UniqueIntent(req[p].pi)
         THEN /\ req' = [req EXCEPT ![p] = Done(req[p], Fail("E11000 duplicate key"))]
              /\ UNCHANGED orders
       ELSE /\ orders' = Append(orders, o)
            /\ req' = [req EXCEPT ![p] =
                 [req[p] EXCEPT !.pc = "co_clearCart", !.res = Ok(Len(orders) + 1)]]
  /\ UNCHANGED <<carts, intents>>
  /\ UNCHANGED cacheVars
  /\ UNCHANGED accountVars

\* Only the items are cleared; the totals stay.
ClearedItemsOnly(cart) == [cart EXCEPT !.items = <<>>]

\* The update document of the cart clearing.
ClearedCart(cart) ==
  [cart EXCEPT !.items = <<>>, !.totalItems = 0, !.totalPrice = 0]

\* await Cart.findByIdAndUpdate(cart._id, { items: [], totalItems: 0,
\* totalPrice: 0 }), then the order is returned.
CoClearCart(p) ==
  /\ At(p, "co_clearCart")
  /\ carts' = [carts EXCEPT ![req[p].userId] =
       IF IsSome(@) THEN Some(ClearedCart(Get(@))) ELSE @]
  /\ req' = [req EXCEPT ![p] = Done(req[p], req[p].res)]
  /\ UNCHANGED <<orders, intents>>
  /\ UNCHANGED cacheVars
  /\ UNCHANGED accountVars

(***************************************************************************)
(* OrderService.updateOrderStatus                                          *)
(***************************************************************************)
\* The status updates of order id that have passed their check and not yet
\* written.
UpdatesInFlight(id) ==
  Cardinality({q \in Procs : /\ req[q].pc \in {"uos_update", "bulk_update"}
                             /\ req[q].orderIds[req[q].idx] = id})

\* Bound: a status update is taken up only while its history entry still
\* fits under MaxHistory.
HistoryRoom(id, status) ==
  (/\ id \in 1..Len(orders)
   /\ status \in ValidTransitions(orders[id].orderStatus)
                 \cup BulkValidTransitions(orders[id].orderStatus))
    => Len(orders[id].statusHistory) + UpdatesInFlight(id) < MaxHistory

InvalidTransition(from, to) ==
  [NoResponse EXCEPT !.kind = "error", !.error = "Invalid status transition",
                     !.from = from, !.to = to]

\* The order read by findById and the transition check on it, for the
\* request r.
UosCheck(r) ==
  LET id == r.orderIds[1] IN
    IF id \notin 1..Len(orders)
      THEN Done(r, Fail("Order not found"))
    ELSE IF r.status \notin ValidTransitions(orders[id].orderStatus)
      THEN Done(r, InvalidTransition(orders[id].orderStatus, r.status))
    ELSE [r EXCEPT !.pc = "uos_update"]

\* updateOrderStatus(orderId, { status, note, trackingInfo }):
\* await OrderModel.findById(orderId) and the transition check.
UosFindById(p, id, status, note, trackingInfo) ==
  /\ Free(p)
  /\ HistoryRoom(id, status)
  /\ req' = [req EXCEPT ![p] =
       UosCheck([Begin("updateOrderStatus") EXCEPT !.orderIds = <<id>>,
                   !.status = status, !.note = note,
                   !.trackingInfo = trackingInfo])]
  /\ UNCHANGED <<orders, carts, intents>>
  /\ UNCHANGED cacheVars
  /\ UNCHANGED accountVars

\* Cancelling an order also zeroes its total, as a refund would.
ApplyUpdateRefunds(o, status, note, trackingInfo) ==
  [o EXCEPT !.orderStatus = status,
            !.statusHistory = Append(@, [status |-> status, note |-> note]),
            !.trackingInfo = IF IsSome(trackingInfo) THEN trackingInfo ELSE @,
            !.totalPrice = IF status = "cancelled" THEN 0 ELSE @]

\* The status is set and the $push is forgotten.
ApplyUpdateStatusOnly(o, status, note, trackingInfo) ==
  [o EXCEPT !.orderStatus = status]

\* { orderStatus: status, $push: { statusHistory: { status, note } } } and,
\* when given, trackingInfo, applied to one document in one atomic update.
ApplyUpdate(o, status, note, trackingInfo) ==
  [o EXCEPT !.orderStatus = status,
            !.statusHistory = Append(@, [status |-> status, note |-> note]),
            !.trackingInfo = IF IsSome(trackingInfo) THEN trackingInfo ELSE @]

\* await OrderModel.findByIdAndUpdate(orderId, updateData, { new: true })
UosUpdate(p) ==
  /\ At(p, "uos_update")
  /\ LET id == req[p].orderIds[1] IN
       /\ orders' = [orders EXCEPT ![id] =
            ApplyUpdate(@, req[p].status,
                        NoteOr(req[p].note, OrderNote(req[p].status)),
                        req[p].trackingInfo)]
       /\ req' = [req EXCEPT ![p] = Done(req[p], Ok(id))]
  /\ UNCHANGED <<carts, intents>>
  /\ UNCHANGED cacheVars
  /\ UNCHANGED accountVars

(***************************************************************************)
(* AdminService.bulkUpdateOrderStatus                                      *)
(***************************************************************************)
BulkIds == UNION {[1..n -> 0..MaxOrders] : n \in 1..MaxBulk}

\* History variable of a bulk call: the status and the history length of
\* every order at the moment the call began.  No step reads it; the
\* properties of the call's result are stated over it.
OrdersBefore ==
  [i \in 1..Len(orders) |-> [orderStatus |-> orders[i].orderStatus,
                             entries |-> Len(orders[i].statusHistory)]]

\* After one id: the next id, or the response when the list is exhausted.
BulkNext(r) ==
  IF r.idx + 1 > Len(r.orderIds)
    THEN Done(r, [NoResponse EXCEPT
                    !.kind = IF r.failed = 0 THEN "ok" ELSE "partial",
                    !.updated = r.updated, !.failed = r.failed,
                    !.errors = r.errors])
    ELSE [r EXCEPT !.idx = @ + 1, !.pc = "bulk_findById"]

\* The first failure ends the loop.
BulkFailedAborts(r, err) ==
  Done(r, [NoResponse EXCEPT !.kind = "partial", !.updated = r.updated,
                             !.failed = r.failed + 1,
                             !.errors = Append(r.errors, err)])

\* result.failed++; result.errors.push(...); continue
BulkFailed(r, err) ==
  BulkNext([r EXCEPT !.failed = @ + 1, !.errors = Append(@, err)])

\* One turn of the loop up to its first await: findById(orderId) and the
\* transition check for the id at r.idx.
BulkCheck(r) ==
  LET id == r.orderIds[r.idx] IN
    IF id \notin 1..Len(orders)
      THEN BulkFailed(r, [id |-> id, error |-> "not found",
                          from |-> "", to |-> ""])
    ELSE IF r.status \notin BulkValidTransitions(orders[id].orderStatus)
      THEN BulkFailed(r, [id |-> id, error |-> "Invalid transition",
                          from |-> orders[id].orderStatus, to |-> r.status])
    ELSE [r EXCEPT !.pc = "bulk_update"]

\* bulkUpdateOrderStatus({ orderIds, status, note }) up to the first id's
\* await OrderModel.findById(orderId).
BulkStart(p, orderIds, status, note) ==
  /\ Free(p)
  /\ HistoryRoom(orderIds[1], status)
  /\ req' = [req EXCEPT ![p] =
       BulkCheck([Begin("bulkUpdateOrderStatus") EXCEPT !.orderIds = orderIds,
                    !.status = status, !.note = note,
                    !.before = OrdersBefore])]
  /\ UNCHANGED <<orders, carts, intents>>
  /\ UNCHANGED cacheVars
  /\ UNCHANGED accountVars

\* await OrderModel.findById(orderId) for a later id of the list.
BulkFindById(p) ==
  /\ At(p, "bulk_findById")
  /\ HistoryRoom(req[p].orderIds[req[p].idx], req[p].status)
  /\ req' = [req EXCEPT ![p] = BulkCheck(req[p])]
  /\ UNCHANGED <<orders, carts, intents>>
  /\ UNCHANGED cacheVars
  /\ UNCHANGED accountVars

\* The history is set to the new entry instead of being pushed to.
ApplyBulkUpdateSet(o, status, note) ==
  [o EXCEPT !.orderStatus = status,
            !.statusHistory = <<[status |-> status, note |-> note]>>]

\* { orderStatus: status, $push: { statusHistory: { status, note } } }: the
\* update document of the bulk update, which carries no tracking info.
ApplyBulkUpdate(o, status, note) ==
  [o EXCEPT !.orderStatus = status,
            !.statusHistory = Append(@, [status |-> status, note |-> note])]

\* await OrderModel.findByIdAndUpdate(orderId, {...}) for one id.
BulkUpdate(p) ==
  /\ At(p, "bulk_update")
  /\ LET id == req[p].orderIds[req[p].idx] IN
       /\ orders' = [orders EXCEPT ![id] =
            ApplyBulkUpdate(@, req[p].status,
                            NoteOr(req[p].note, BulkNote(req[p].status)))]
       /\ req' = [req EXCEPT ![p] = BulkNext([req[p] EXCEPT !.updated = @ + 1])]
  /\ UNCHANGED <<carts, intents>>
  /\ UNCHANGED cacheVars
  /\ UNCHANGED accountVars

(***************************************************************************)
(* OrderService.handleWebhook                                              *)
(***************************************************************************)
WebhookEvents == {"payment_intent.succeeded", "payment_intent.payment_failed",
                  "charge.refunded"}

\* The failed payment also cancels the order.
FailedPaymentCancels(o) ==
  [o EXCEPT !.paymentStatus = "failed", !.orderStatus = "cancelled"]

\* The update document { paymentStatus: 'failed' }.
FailedPayment(o) == [o EXCEPT !.paymentStatus = "failed"]

\* findOneAndUpdate({ paymentIntentId }, { paymentStatus: 'failed' }) on a
\* payment_failed event; every other event only logs.
HandleWebhook(type, pi) ==
  /\ Quiet
  /\ IF type = "payment_intent.payment_failed" /\ OrdersOfIntent(pi) # {}
       THEN LET id == CHOOSE i \in OrdersOfIntent(pi) :
                        \A j \in OrdersOfIntent(pi) : i <= j
            IN orders' = [orders EXCEPT ![id] = FailedPayment(@)]
       ELSE UNCHANGED orders
  /\ UNCHANGED <<carts, intents, req>>
  /\ UNCHANGED cacheVars
  /\ UNCHANGED accountVars

(***************************************************************************)
(* Cart service: getCart, updateCartItem, removeFromCart, clearCart.       *)
(***************************************************************************)
Reply(code, msg) ==
  [NoResponse EXCEPT !.kind = IF code < 400 THEN "ok" ELSE "error",
                     !.code = code, !.error = msg]

\* items.splice(i, 1)
RemoveAt(items, i) == SubSeq(items, 1, i - 1) \o SubSeq(items, i + 1, Len(items))

\* What save() leaves stored at a path: the document's value when it differs
\* from the loaded one (the path is modified), else what is stored.
Written(stored, loaded, local) == IF local # loaded THEN local ELSE stored

\* save() of a cart whose items array was replaced as a whole (splice, or
\* the assignment of []): the array is $set and the version incremented.
SavedItems(stored, loaded, items) ==
  [items |-> items,
   totalItems |-> Written(stored.totalItems, loaded.totalItems, SumQty(items)),
   totalPrice |-> Written(stored.totalPrice, loaded.totalPrice, SumPrice(items)),
   v |-> stored.v + 1]

\* $set of items.<i>.quantity on the stored array; an index past its end
\* creates the element from that field alone.
SetQuantity(items, i, quantity) ==
  IF i <= Len(items)
    THEN [items EXCEPT ![i] = [@ EXCEPT !.quantity = quantity]]
    ELSE Append(items, [productId |-> 0, quantity |-> quantity, price |-> 0])

\* getCart(userId): Cart.getOrCreate's await this.findOne({ userId }).
GetCartFindOne(p, u) ==
  /\ Free(p)
  /\ LET r == [Begin("getCart") EXCEPT !.userId = u] IN
       req' = [req EXCEPT ![p] =
         IF IsSome(carts[u]) THEN Done(r, Ok(0))
         ELSE [r EXCEPT !.pc = "atc_create"]]
  /\ UNCHANGED <<orders, carts, intents>>
  /\ UNCHANGED cacheVars
  /\ UNCHANGED accountVars

\* findByUserId and findIndex of updateCartItem and removeFromCart: the
\* request r goes on to the save at pc, or is answered 404 when the cart
\* or the line is missing.
FindCartLine(r, pc) ==
  LET cart == carts[r.userId] IN
    IF ~IsSome(cart) \/ FindIndex(Get(cart).items, Get(r.item).productId) = 0
      THEN Done(r, Reply(404, "Cart or item not found"))
      ELSE [r EXCEPT !.pc = pc, !.cart = cart]

\* updateCartItem(userId, { productId, quantity }) up to
\* await Cart.findByUserId(userId).
UciFind(p, u, productId, quantity) ==
  /\ Free(p)
  /\ CartVersion(u) < MaxVersion
  /\ req' = [req EXCEPT ![p] =
       FindCartLine([Begin("updateCartItem") EXCEPT !.userId = u,
                       !.item = Some([productId |-> productId,
                                      quantity |-> quantity, price |-> 0])],
                    "uci_save")]
  /\ UNCHANGED <<orders, carts, intents>>
  /\ UNCHANGED cacheVars
  /\ UNCHANGED accountVars

\* input.quantity <= 0: the line is removed.
RemovesLine(quantity) == quantity <= 0

\* await cart.save() of updateCartItem: a removed line replaces the array
\* under the loaded version, a changed quantity is written by position
\* under the loaded version, an unchanged one writes nothing to the array.
UciSave(p) ==
  /\ At(p, "uci_save")
  /\ LET u == req[p].userId
         loaded == Get(req[p].cart)
         quantity == Get(req[p].item).quantity
         i == FindIndex(loaded.items, Get(req[p].item).productId)
         stored == Get(carts[u])
         local == IF RemovesLine(quantity) THEN RemoveAt(loaded.items, i)
                  ELSE [loaded.items EXCEPT ![i].quantity = quantity]
     IN
       IF ~ValidCartItems(local)
         THEN /\ req' = [req EXCEPT ![p] = Done(req[p], Fail("ValidationError"))]
              /\ UNCHANGED carts
       ELSE IF local # loaded.items /\ stored.v # loaded.v
         THEN /\ req' = [req EXCEPT ![p] = Done(req[p], Fail("VersionError"))]
              /\ UNCHANGED carts
       ELSE /\ carts' = [carts EXCEPT ![u] = Some(
                 IF RemovesLine(quantity)
                   THEN SavedItems(stored, loaded, local)
                   ELSE [items |-> IF local # loaded.items
                                     THEN SetQuantity(stored.items, i, quantity)
                                     ELSE stored.items,
                         totalItems |-> Written(stored.totalItems,
                                                loaded.totalItems, SumQty(local)),
                         totalPrice |-> Written(stored.totalPrice,
                                                loaded.totalPrice, SumPrice(local)),
                         v |-> stored.v])]
            /\ req' = [req EXCEPT ![p] = Done(req[p], Reply(200, ""))]
  /\ UNCHANGED <<orders, intents>>
  /\ UNCHANGED cacheVars
  /\ UNCHANGED accountVars

\* removeFromCart(userId, productId) up to await Cart.findByUserId(userId).
RfcFind(p, u, productId) ==
  /\ Free(p)
  /\ CartVersion(u) < MaxVersion
  /\ req' = [req EXCEPT ![p] =
       FindCartLine([Begin("removeFromCart") EXCEPT !.userId = u,
                       !.item = Some([productId |-> productId,
                                      quantity |-> 0, price |-> 0])],
                    "rfc_save")]
  /\ UNCHANGED <<orders, carts, intents>>
  /\ UNCHANGED cacheVars
  /\ UNCHANGED accountVars

\* await cart.save() of removeFromCart, after items.splice(itemIndex, 1).
RfcSave(p) ==
  /\ At(p, "rfc_save")
  /\ LET u == req[p].userId
         loaded == Get(req[p].cart)
         i == FindIndex(loaded.items, Get(req[p].item).productId)
         stored == Get(carts[u])
     IN
       IF stored.v # loaded.v
         THEN /\ req' = [req EXCEPT ![p] = Done(req[p], Fail("VersionError"))]
              /\ UNCHANGED carts
         ELSE /\ carts' = [carts EXCEPT ![u] =
                   Some(SavedItems(stored, loaded, RemoveAt(loaded.items, i)))]
              /\ req' = [req EXCEPT ![p] = Done(req[p], Reply(200, ""))]
  /\ UNCHANGED <<orders, intents>>
  /\ UNCHANGED cacheVars
  /\ UNCHANGED accountVars

\* clearCart(userId) up to await Cart.findByUserId(userId).
CcFind(p, u) ==
  /\ Free(p)
  /\ CartVersion(u) < MaxVersion
  /\ LET r == [Begin("clearCart") EXCEPT !.userId = u] IN
       req' = [req EXCEPT ![p] =
         IF IsSome(carts[u]) THEN [r EXCEPT !.pc = "cc_save", !.cart = carts[u]]
         ELSE Done(r, Reply(404, "Cart not found"))]
  /\ UNCHANGED <<orders, carts, intents>>
  /\ UNCHANGED cacheVars
  /\ UNCHANGED accountVars

\* await cart.save() of clearCart, after cart.items = []: an array that was
\* empty already is not written.
CcSave(p) ==
  /\ At(p, "cc_save")
  /\ LET u == req[p].userId
         loaded == Get(req[p].cart)
         stored == Get(carts[u])
     IN
       IF loaded.items # <<>> /\ stored.v # loaded.v
         THEN /\ req' = [req EXCEPT ![p] = Done(req[p], Fail("VersionError"))]
              /\ UNCHANGED carts
         ELSE /\ carts' = [carts EXCEPT ![u] = Some(
                   IF loaded.items # <<>>
                     THEN SavedItems(stored, loaded, <<>>)
                     ELSE [stored EXCEPT
                             !.totalItems = Written(@, loaded.totalItems, 0),
                             !.totalPrice = Written(@, loaded.totalPrice, 0)])]
              /\ req' = [req EXCEPT ![p] = Done(req[p], Reply(200, ""))]
  /\ UNCHANGED <<orders, intents>>
  /\ UNCHANGED cacheVars
  /\ UNCHANGED accountVars

(***************************************************************************)
(* Wishlist service.                                                       *)
(***************************************************************************)
\* The _ids of the wishlists of the user u.
WishlistIds(u) == {k \in 1..Len(wishlists) : wishlists[k].userId = u}

\* Wishlist.findOne({ userId }): None for null, else the document with its
\* _id.
FindWishlist(u) ==
  IF WishlistIds(u) = {} THEN None
  ELSE LET k == CHOOSE k \in WishlistIds(u) : \A j \in WishlistIds(u) : k <= j
       IN Some([id |-> k, items |-> wishlists[k].items,
                totalItems |-> wishlists[k].totalItems, v |-> wishlists[k].v])

WishVersion(u) == IF IsSome(FindWishlist(u)) THEN Get(FindWishlist(u)).v ELSE 0

EmptyWishlistDoc(u) == [userId |-> u, items |-> <<>>, totalItems |-> 0, v |-> 0]

\* No unique index on the wishlist's userId.
WishlistUserIdUniqueUnchecked(u) == TRUE

\* unique: true on wishlistSchema.userId.
WishlistUserIdUnique(u) == WishlistIds(u) = {}

\* The wishlist returned by getOrCreate: addToWishlist goes on to look for
\* the product, getWishlist and the moveToCart controller answer with it.
AfterWishlistGetOrCreate(r, wishlist) ==
  IF r.op = "addToWishlist"
    THEN IF FindIndex(Get(wishlist).items, Get(r.item).productId) > 0
           THEN Done(r, [Reply(200, "Item already in wishlist") EXCEPT
                           !.added = FALSE])
           ELSE [r EXCEPT !.pc = "atw_save", !.wish = wishlist]
    ELSE Done(r, Reply(200, ""))

\* getWishlist(userId): Wishlist.getOrCreate's await this.findOne({ userId }).
GetWishlistFindOne(p, u) ==
  /\ Free(p)
  /\ LET r == [Begin("getWishlist") EXCEPT !.userId = u] IN
       req' = [req EXCEPT ![p] =
         IF IsSome(FindWishlist(u)) THEN AfterWishlistGetOrCreate(r, FindWishlist(u))
         ELSE [r EXCEPT !.pc = "wl_create"]]
  /\ UNCHANGED <<orders, carts, intents>>
  /\ UNCHANGED cacheVars
  /\ UNCHANGED <<wishlists, users, sessions>>

\* addToWishlist(userId, input) up to Wishlist.getOrCreate's
\* await this.findOne({ userId }).
AtwFindOne(p, u, productId, price) ==
  /\ Free(p)
  /\ WishVersion(u) < MaxVersion
  /\ LET r == [Begin("addToWishlist") EXCEPT !.userId = u,
                 !.item = Some([productId |-> productId, quantity |-> 1,
                                price |-> price])]
     IN req' = [req EXCEPT ![p] =
          IF IsSome(FindWishlist(u)) THEN AfterWishlistGetOrCreate(r, FindWishlist(u))
          ELSE [r EXCEPT !.pc = "wl_create"]]
  /\ UNCHANGED <<orders, carts, intents>>
  /\ UNCHANGED cacheVars
  /\ UNCHANGED <<wishlists, users, sessions>>

\* Wishlist.getOrCreate: await this.create({ userId, items: [] }).
WlCreate(p) ==
  /\ At(p, "wl_create")
  /\ LET u == req[p].userId IN
       IF ~WishlistUserIdUnique(u)
         THEN /\ req' = [req EXCEPT ![p] = Done(req[p], Fail("E11000 duplicate key"))]
              /\ UNCHANGED wishlists
         ELSE /\ wishlists' = Append(wishlists, EmptyWishlistDoc(u))
              /\ req' = [req EXCEPT ![p] =
                   AfterWishlistGetOrCreate(req[p],
                     Some([id |-> Len(wishlists) + 1, items |-> <<>>,
                           totalItems |-> 0, v |-> 0]))]
  /\ UNCHANGED <<orders, carts, intents>>
  /\ UNCHANGED cacheVars
  /\ UNCHANGED <<users, sessions>>

\* await wishlist.save() of addToWishlist: the new item is a $push that
\* increments the version, totalItems is the length of the loaded array
\* with the new item.
AtwSave(p) ==
  /\ At(p, "atw_save")
  /\ LET loaded == Get(req[p].wish)
         item == [productId |-> Get(req[p].item).productId,
                  price |-> Get(req[p].item).price]
     IN
       /\ wishlists' = [wishlists EXCEPT ![loaded.id] =
            [@ EXCEPT !.items = Append(@, item),
                      !.totalItems = Len(loaded.items) + 1,
                      !.v = @ + 1]]
       /\ req' = [req EXCEPT ![p] =
            Done(req[p], [Reply(200, "Item added to wishlist") EXCEPT
                            !.added = TRUE])]
  /\ UNCHANGED <<orders, carts, intents>>
  /\ UNCHANGED cacheVars
  /\ UNCHANGED <<users, sessions>>

\* findByUserId and findIndex of removeFromWishlist and of the wishlist
\* service's moveToCart: the request r goes on to the save at pc, or is
\* answered 404 when the wishlist or the item is missing.
FindWishlistItem(r, productId, pc) ==
  LET wishlist == FindWishlist(r.userId) IN
    IF ~IsSome(wishlist) \/ FindIndex(Get(wishlist).items, productId) = 0
      THEN Done(r, Reply(404, "Wishlist or item not found"))
      ELSE LET i == FindIndex(Get(wishlist).items, productId) IN
        [r EXCEPT !.pc = pc, !.wish = wishlist,
                  !.item = Some([productId |-> productId, quantity |-> 1,
                                 price |-> Get(wishlist).items[i].price])]

\* await wishlist.save() after items.splice(itemIndex, 1): the array is
\* $set under the loaded version and the version incremented.
SplicedWishlist(stored, loaded, productId) ==
  LET items == RemoveAt(loaded.items, FindIndex(loaded.items, productId)) IN
    [stored EXCEPT !.items = items,
                   !.totalItems = Written(@, loaded.totalItems, Len(items)),
                   !.v = @ + 1]

\* removeFromWishlist(userId, productId) up to
\* await Wishlist.findByUserId(userId).
RfwFind(p, u, productId) ==
  /\ Free(p)
  /\ WishVersion(u) < MaxVersion
  /\ req' = [req EXCEPT ![p] =
       FindWishlistItem([Begin("removeFromWishlist") EXCEPT !.userId = u],
                        productId, "rfw_save")]
  /\ UNCHANGED <<orders, carts, intents>>
  /\ UNCHANGED cacheVars
  /\ UNCHANGED <<wishlists, users, sessions>>

\* await wishlist.save() of removeFromWishlist.
RfwSave(p) ==
  /\ At(p, "rfw_save")
  /\ LET loaded == Get(req[p].wish)
         stored == wishlists[loaded.id]
     IN
       IF stored.v # loaded.v
         THEN /\ req' = [req EXCEPT ![p] = Done(req[p], Fail("VersionError"))]
              /\ UNCHANGED wishlists
         ELSE /\ wishlists' = [wishlists EXCEPT ![loaded.id] =
                   SplicedWishlist(stored, loaded, Get(req[p].item).productId)]
              /\ req' = [req EXCEPT ![p] = Done(req[p], Reply(200, ""))]
  /\ UNCHANGED <<orders, carts, intents>>
  /\ UNCHANGED cacheVars
  /\ UNCHANGED <<users, sessions>>

(***************************************************************************)
(* The wishlist controller's moveToCart: the wishlist service's moveToCart,*)
(* then the cart service's addToCart, then getWishlist.                    *)
(***************************************************************************)
\* moveToCart up to the wishlist service's await Wishlist.findByUserId.
MtcFindWishlist(p, u, productId) ==
  /\ Free(p)
  /\ WishVersion(u) < MaxVersion
  /\ CartVersion(u) < MaxVersion
  /\ CartQty(u) + 1 <= MaxQty
  /\ req' = [req EXCEPT ![p] =
       FindWishlistItem([Begin("moveToCart") EXCEPT !.userId = u],
                        productId, "mtc_saveWishlist")]
  /\ UNCHANGED <<orders, carts, intents>>
  /\ UNCHANGED cacheVars
  /\ UNCHANGED <<wishlists, users, sessions>>

\* The wishlist service's await wishlist.save(); the item it returns is
\* then passed to addToCart, up to Cart.getOrCreate's findOne.
MtcSaveWishlist(p) ==
  /\ At(p, "mtc_saveWishlist")
  /\ LET loaded == Get(req[p].wish)
         stored == wishlists[loaded.id]
     IN
       IF stored.v # loaded.v
         THEN /\ req' = [req EXCEPT ![p] = Done(req[p], Fail("VersionError"))]
              /\ UNCHANGED wishlists
         ELSE /\ wishlists' = [wishlists EXCEPT ![loaded.id] =
                   SplicedWishlist(stored, loaded, Get(req[p].item).productId)]
              /\ req' = [req EXCEPT ![p] = [req[p] EXCEPT !.pc = "mtc_findCart"]]
  /\ UNCHANGED <<orders, carts, intents>>
  /\ UNCHANGED cacheVars
  /\ UNCHANGED <<users, sessions>>

\* addToCart's Cart.getOrCreate: await this.findOne({ userId }).
MtcFindCart(p) ==
  /\ At(p, "mtc_findCart")
  /\ LET u == req[p].userId IN
       req' = [req EXCEPT ![p] =
         IF IsSome(carts[u])
           THEN [req[p] EXCEPT !.pc = "atc_save", !.cart = carts[u]]
           ELSE [req[p] EXCEPT !.pc = "atc_create"]]
  /\ UNCHANGED <<orders, carts, intents>>
  /\ UNCHANGED cacheVars
  /\ UNCHANGED <<wishlists, users, sessions>>

\* The controller's await wishlistService.getWishlist(userId) and the
\* response.
MtcGetWishlist(p) ==
  /\ At(p, "mtc_getWishlist")
  /\ req' = [req EXCEPT ![p] =
       IF IsSome(FindWishlist(req[p].userId))
         THEN Done(req[p], Reply(200, "Item moved to cart"))
         ELSE [req[p] EXCEPT !.pc = "wl_create"]]
  /\ UNCHANGED <<orders, carts, intents>>
  /\ UNCHANGED cacheVars
  /\ UNCHANGED <<wishlists, users, sessions>>

(***************************************************************************)
(* Sessions and the auth middleware.  getSession answers from the signed   *)
(* session cookie while its cache is fresh (cookieCache, five minutes) and *)
(* from the database after that, so the user a request is run for is the   *)
(* user as stored when the cookie was last written.                        *)
(***************************************************************************)
Authenticated(a) == IsSome(sessions[a])

\* Sign-in: the session cookie is written with the user as stored.
SignIn(a) ==
  /\ Quiet
  /\ ~IsSome(sessions[a])
  /\ IsSome(users[a])
  /\ sessions' = [sessions EXCEPT ![a] = users[a]]
  /\ UNCHANGED <<orders, carts, intents, req, wishlists, users>>
  /\ UNCHANGED cacheVars

\* The cookie cache has run out: getSession reads the session's user from
\* the database and writes the cookie again; without the user there is no
\* session.
RefreshSession(a) ==
  /\ Quiet
  /\ IsSome(sessions[a])
  /\ sessions[a] # users[a]
  /\ sessions' = [sessions EXCEPT ![a] = users[a]]
  /\ UNCHANGED <<orders, carts, intents, req, wishlists, users>>
  /\ UNCHANGED cacheVars

\* Every session passes for an administrator's.
IsAdminAlways(session) == TRUE

\* req.user.role === 'admin'
IsAdmin(session) == Get(session).role = "admin"

\* requireAuth, and on the routes under /api/admin requireAdmin, before the
\* handler: the response of the middleware that blocks the request r, or
\* what the handler makes of it.
Gate(r, handled) ==
  IF ~IsSome(r.session)
    THEN Done(r, Reply(401, "Authentication required"))
  ELSE IF r.route = "admin" /\ ~IsAdmin(r.session)
    THEN Done(r, Reply(403, "Admin access required"))
  ELSE handled

\* The request of the account a to a route, as the middleware sees it.
Arrived(op, route, a) ==
  [Begin(op) EXCEPT !.route = route, !.userId = a, !.session = sessions[a]]

(***************************************************************************)
(* AdminController and AdminService: updateUserRole, deleteUser.           *)
(***************************************************************************)
\* req.user?.id === userId
IsSelf(a, userId) == a = userId

\* PATCH /api/admin/users/:userId/role: the middleware, the controller's
\* check of the target and await User.findByIdAndUpdate(userId, { role }).
UpdateUserRole(p, a, userId, role) ==
  /\ Free(p)
  /\ LET r == [Arrived("updateUserRole", "admin", a) EXCEPT
                 !.target = userId, !.role = role]
     IN req' = [req EXCEPT ![p] =
          Gate(r, IF IsSelf(a, userId)
                    THEN Done(r, Reply(400, "Cannot change your own role"))
                  ELSE IF ~IsSome(users[userId])
                    THEN Done(r, Reply(404, "User not found"))
                  ELSE Done(r, Reply(200, "User role updated")))]
  /\ users' = IF req'[p].res.code = 200
                THEN [users EXCEPT ![userId] = Some([role |-> role])]
                ELSE users
  /\ UNCHANGED <<orders, carts, intents, wishlists, sessions>>
  /\ UNCHANGED cacheVars

\* OrderModel.countDocuments({ userId })
OrderCount(userId) ==
  Cardinality({i \in 1..Len(orders) : orders[i].userId = userId})

\* DELETE /api/admin/users/:userId: the middleware, the controller's check
\* of the target and deleteUser's await OrderModel.countDocuments({ userId }).
DuCount(p, a, userId) ==
  /\ Free(p)
  /\ LET r == [Arrived("deleteUser", "admin", a) EXCEPT !.target = userId]
     IN req' = [req EXCEPT ![p] =
          Gate(r, IF IsSelf(a, userId)
                    THEN Done(r, Reply(400, "Cannot delete your own account"))
                  ELSE IF OrderCount(userId) > 0
                    THEN Done(r, Reply(400,
                           "Cannot delete user with existing orders. Consider deactivating instead."))
                  ELSE [r EXCEPT !.pc = "du_delete"])]
  /\ UNCHANGED <<orders, carts, intents>>
  /\ UNCHANGED cacheVars
  /\ UNCHANGED accountVars

\* deleteUser's await User.findByIdAndDelete(userId).
DuDelete(p) ==
  /\ At(p, "du_delete")
  /\ LET userId == req[p].target IN
       IF IsSome(users[userId])
         THEN /\ users' = [users EXCEPT ![userId] = None]
              /\ req' = [req EXCEPT ![p] =
                   Done(req[p], Reply(200, "User deleted successfully"))]
         ELSE /\ UNCHANGED users
              /\ req' = [req EXCEPT ![p] = Done(req[p], Reply(404, "User not found"))]
  /\ UNCHANGED <<orders, carts, intents, wishlists, sessions>>
  /\ UNCHANGED cacheVars

(***************************************************************************)
(* The routes to the orders.                                               *)
(***************************************************************************)
\* PATCH /api/orders/:orderId/status (route "orders") and
\* PATCH /api/admin/orders/:orderId/status (route "admin"): the middleware
\* of the route, then updateOrderStatus up to its findById and check.
RouteUpdateOrderStatus(p, route, a, id, status) ==
  /\ Free(p)
  /\ HistoryRoom(id, status)
  /\ LET r == [Arrived("updateOrderStatus", route, a) EXCEPT
                 !.orderIds = <<id>>, !.status = status]
     IN req' = [req EXCEPT ![p] = Gate(r, UosCheck(r))]
  /\ UNCHANGED <<orders, carts, intents>>
  /\ UNCHANGED cacheVars
  /\ UNCHANGED accountVars

\* OrderModel.findOne({ _id: orderId, userId })
OwnOrder(id, userId) == id \in 1..Len(orders) /\ orders[id].userId = userId

\* GET /api/orders/:orderId: requireAuth and getOrderById(orderId, userId).
GetOrder(p, a, id) ==
  /\ Free(p)
  /\ LET r == [Arrived("getOrder", "orders", a) EXCEPT !.orderIds = <<id>>]
     IN req' = [req EXCEPT ![p] =
          Gate(r, IF OwnOrder(id, a) THEN Done(r, Ok(id))
                  ELSE Done(r, Reply(404, "Order not found")))]
  /\ UNCHANGED <<orders, carts, intents>>
  /\ UNCHANGED cacheVars
  /\ UNCHANGED accountVars

\* GET /api/orders: requireAuth and getUserOrders(userId).
GetUserOrders(p, a) ==
  /\ Free(p)
  /\ LET r == Arrived("getUserOrders", "orders", a)
     IN req' = [req EXCEPT ![p] =
          Gate(r, Done(r, [Ok(0) EXCEPT
                     !.found = {i \in 1..Len(orders) : orders[i].userId = a}]))]
  /\ UNCHANGED <<orders, carts, intents>>
  /\ UNCHANGED cacheVars
  /\ UNCHANGED accountVars

(***************************************************************************)
(* The product cache (CacheStore).  Its methods are synchronous, so each   *)
(* call is one step; the clock is read by Date.now() and moves between     *)
(* the calls.                                                              *)
(***************************************************************************)
\* productCache = new CacheStore(CACHE_TTL.PRODUCTS)
DefaultTTLSeconds == 300

\* setInterval(() => this.cleanup(), 60000)
SweepInterval == 60000

CacheKeys == {"product:1", "products:all"}
CacheData == {"a", "b"}
CachePatterns == {"product:", "product"}

\* The ttlSeconds argument of set: omitted, 0 or one second.
TtlInputs == {None, Some(0), Some(1)}

\* The amounts, in milliseconds, by which the clock moves between two calls.
TickSizes == {100, 1000, 60000, 300000}

\* key.includes(pattern) on the keys and patterns above.
Includes(key, pattern) ==
  \/ pattern = "product"
  \/ pattern = "product:" /\ key = "product:1"

\* An entry counts as expired from its expiry on.
ExpiredAtExpiry(entry, t) == t >= entry.expiry

\* Date.now() > entry.expiry, in get and has.
Expired(entry, t) == t > entry.expiry

\* The sweep removes an entry from its expiry on.
SweepExpiredAtExpiry(entry, t) == t >= entry.expiry

\* now > entry.expiry, in cleanup.
SweepExpired(entry, t) == t > entry.expiry

\* ttlSeconds ? ttlSeconds * 1000 : this.defaultTTL; undefined and 0 are falsy.
TtlMillis(ttlSeconds) ==
  IF IsSome(ttlSeconds) /\ Get(ttlSeconds) # 0
    THEN Get(ttlSeconds) * 1000
    ELSE DefaultTTLSeconds * 1000

\* What get(key) returns on the store c at the time t: the data, or None
\* for null.
GetResultIn(c, t, key) ==
  IF IsSome(c[key]) /\ ~Expired(Get(c[key]), t) THEN Some(Get(c[key]).data)
  ELSE None

GetResult(key) == GetResultIn(cache, now, key)

\* get(key) and has(key): an expired entry is deleted on the way.
CacheGet(key) ==
  /\ cache' = [cache EXCEPT ![key] =
       IF IsSome(@) /\ Expired(Get(@), now) THEN None ELSE @]
  /\ UNCHANGED <<now, sweepDue, latest, ticks, orders, carts, intents, req>>
  /\ UNCHANGED accountVars

\* set(key, data, ttlSeconds)
CacheSet(key, data, ttlSeconds) ==
  /\ cache' = [cache EXCEPT ![key] =
       Some([data |-> data, expiry |-> now + TtlMillis(ttlSeconds)])]
  /\ latest' = [latest EXCEPT ![key] =
       Some([data |-> data, at |-> now, ttl |-> ttlSeconds, swept |-> FALSE])]
  /\ UNCHANGED <<now, sweepDue, ticks, orders, carts, intents, req>>
  /\ UNCHANGED accountVars

\* delete(key)
CacheDelete(key) ==
  /\ cache' = [cache EXCEPT ![key] = None]
  /\ latest' = [latest EXCEPT ![key] = None]
  /\ UNCHANGED <<now, sweepDue, ticks, orders, carts, intents, req>>
  /\ UNCHANGED accountVars

\* clear()
CacheClear ==
  /\ cache' = [k \in CacheKeys |-> None]
  /\ latest' = [k \in CacheKeys |-> None]
  /\ UNCHANGED <<now, sweepDue, ticks, orders, carts, intents, req>>
  /\ UNCHANGED accountVars

\* clearPattern(pattern)
CacheClearPattern(pattern) ==
  /\ cache' = [k \in CacheKeys |->
       IF Includes(k, pattern) THEN None ELSE cache[k]]
  /\ latest' = [k \in CacheKeys |->
       IF Includes(k, pattern) /\ IsSome(cache[k]) THEN None ELSE latest[k]]
  /\ UNCHANGED <<now, sweepDue, ticks, orders, carts, intents, req>>
  /\ UNCHANGED accountVars

\* cleanup(), run by the interval timer once it is due; the timer is then
\* armed again one interval from this run.
Cleanup ==
  /\ now >= sweepDue
  /\ cache' = [k \in CacheKeys |->
       IF IsSome(cache[k]) /\ SweepExpired(Get(cache[k]), now)
         THEN None ELSE cache[k]]
  /\ latest' = [k \in CacheKeys |->
       IF IsSome(cache[k]) /\ SweepExpired(Get(cache[k]), now) /\ IsSome(latest[k])
         THEN Some([Get(latest[k]) EXCEPT !.swept = TRUE]) ELSE latest[k]]
  /\ sweepDue' = now + SweepInterval
  /\ UNCHANGED <<now, ticks, orders, carts, intents, req>>
  /\ UNCHANGED accountVars

\* Time passes between two calls.
Tick(d) ==
  /\ ticks < MaxTicks
  /\ now' = now + d
  /\ ticks' = ticks + 1
  /\ UNCHANGED <<cache, sweepDue, latest, orders, carts, intents, req>>
  /\ UNCHANGED accountVars

Init ==
  /\ orders = <<>>
  /\ carts = [u \in Users |-> None]
  /\ intents = <<>>
  /\ req = [p \in Procs |-> IdleReq]
  /\ cache = [k \in CacheKeys |-> None]
  /\ now = 0
  /\ sweepDue = SweepInterval
  /\ latest = [k \in CacheKeys |-> None]
  /\ ticks = 0
  /\ wishlists = <<>>
  /\ users = [a \in Accounts |->
       Some([role |-> IF a \in Users THEN "customer" ELSE "admin"])]
  /\ sessions = [a \in Accounts |-> None]

\* The response has been sent and the request slot is free again.
Respond(p) ==
  /\ req[p].pc = "done"
  /\ req' = [req EXCEPT ![p] = IdleReq]
  /\ UNCHANGED <<orders, carts, intents>>
  /\ UNCHANGED cacheVars
  /\ UNCHANGED accountVars

(***************************************************************************)
(* The order lifecycle: one customer checks out one order, and two         *)
(* administrators change its status with updateOrderStatus, interleaved,   *)
(* while the provider's webhook events arrive.                             *)
(***************************************************************************)
\* The customer's part of the lifecycle specifications: one line in the
\* cart, one payment intent, and the confirmations of it.
LifecycleCheckout(p) ==
  \/ intents = <<>> /\ CartQty("u1") = 0 /\ AtcFindOne(p, "u1", 1, 1, PriceOf(1))
  \/ AtcCreate(p)
  \/ AtcSave(p)
  \/ Len(intents) + IntentsInFlight < MaxOrders /\ CpiFindCart(p, "u1", "home")
  \/ CpiCreate(p)
  \/ \E pi \in 0..MaxOrders : CoRetrieve(p, "u1", pi, "home")
  \/ CoFindExisting(p)
  \/ CoFindCart(p)
  \/ CoCreate(p)
  \/ CoClearCart(p)
  \/ Respond(p)

Next ==
  \/ \E p \in Procs : LifecycleCheckout(p)
  \/ \E i \in 1..MaxOrders : StripePay(i)
  \/ \E p \in Procs, id \in 0..MaxOrders, s \in OrderStatuses, n \in NoteInputs,
        t \in TrackingInputs : UosFindById(p, id, s, n, t)
  \/ \E p \in Procs : UosUpdate(p)
  \/ \E type \in WebhookEvents, pi \in 0..MaxOrders : HandleWebhook(type, pi)

Spec == Init /\ [][Next]_vars

(***************************************************************************)
(* The same lifecycle with bulk updates: one bulk update at a time runs    *)
(* beside the single updates.                                              *)
(***************************************************************************)
NoBulkInFlight == \A q \in Procs : req[q].op # "bulkUpdateOrderStatus"

NextBulk ==
  \/ \E p \in Procs : LifecycleCheckout(p)
  \/ \E i \in 1..MaxOrders : StripePay(i)
  \/ \E p \in Procs, id \in 0..MaxOrders, s \in OrderStatuses :
        UosFindById(p, id, s, None, None)
  \/ \E p \in Procs : UosUpdate(p)
  \/ \E p \in Procs, ids \in BulkIds, s \in OrderStatuses,
        n \in {None, Some("Left warehouse")} :
        NoBulkInFlight /\ BulkStart(p, ids, s, n)
  \/ \E p \in Procs : BulkFindById(p)
  \/ \E p \in Procs : BulkUpdate(p)

SpecBulk == Init /\ [][NextBulk]_vars

(***************************************************************************)
(* Checkout: the requests of one customer, who fills the cart, creates     *)
(* payment intents, pays and confirms, interleaved in two request slots.   *)
(***************************************************************************)
NextCheckout ==
  \/ \E p \in Procs, productId \in Products, quantity \in 1..MaxQty :
        AtcFindOne(p, "u1", productId, quantity, PriceOf(productId))
  \/ \E p \in Procs : AtcCreate(p)
  \/ \E p \in Procs : AtcSave(p)
  \/ \E i \in 1..MaxIntents : StripePay(i)
  \/ \E p \in Procs, a \in Addresses : CpiFindCart(p, "u1", a)
  \/ \E p \in Procs : CpiCreate(p)
  \/ \E p \in Procs, pi \in 0..MaxIntents, a \in Addresses :
        CoRetrieve(p, "u1", pi, a)
  \/ \E p \in Procs : CoFindExisting(p)
  \/ \E p \in Procs : CoFindCart(p)
  \/ \E p \in Procs : CoCreate(p)
  \/ \E p \in Procs : CoClearCart(p)
  \/ \E p \in Procs : Respond(p)

SpecCheckout == Init /\ [][NextCheckout]_vars

(***************************************************************************)
(* After the purchase: the customer's requests run in one slot and the     *)
(* administrator's in the other.  Once the order exists the customer puts  *)
(* the product into the cart again at the price it has by then, while the  *)
(* administrator changes the status, singly and in bulk, and the           *)
(* provider's webhook events arrive.                                       *)
(***************************************************************************)
\* The request slot of the customer and the one of the administrator.
Customer == CHOOSE p \in Procs : \A q \in Procs : p <= q
Admin == Customer + 1

\* The price of a product after the catalog has changed.
LaterPriceOf(productId) == PriceOf(productId) + 200

NextAfterPurchase ==
  \/ LifecycleCheckout(Customer)
  \/ Len(orders) > 0 /\ AtcFindOne(Customer, "u1", 1, 1, LaterPriceOf(1))
  \/ \E i \in 1..MaxOrders : StripePay(i)
  \/ \E id \in 0..MaxOrders, s \in OrderStatuses, t \in TrackingInputs :
        UosFindById(Admin, id, s, None, t)
  \/ UosUpdate(Admin)
  \/ \E ids \in BulkIds, s \in OrderStatuses : BulkStart(Admin, ids, s, None)
  \/ BulkFindById(Admin)
  \/ BulkUpdate(Admin)
  \/ Respond(Admin)
  \/ \E type \in WebhookEvents, pi \in 0..MaxOrders : HandleWebhook(type, pi)

SpecAfterPurchase == Init /\ [][NextAfterPurchase]_vars

(***************************************************************************)
(* The product cache: reads, writes, deletions and the sweep, as time      *)
(* passes.                                                                 *)
(***************************************************************************)
NextCache ==
  \/ \E k \in CacheKeys : CacheGet(k)
  \/ \E k \in CacheKeys, d \in CacheData, t \in TtlInputs : CacheSet(k, d, t)
  \/ \E k \in CacheKeys : CacheDelete(k)
  \/ CacheClear
  \/ \E pattern \in CachePatterns : CacheClearPattern(pattern)
  \/ Cleanup
  \/ \E d \in TickSizes : Tick(d)

SpecCache == Init /\ [][NextCache]_vars

(***************************************************************************)
(* Cart and wishlist: the requests of one customer to the cart and the     *)
(* wishlist routes, interleaved in two request slots.                      *)
(***************************************************************************)
\* The quantities a client sends: a negative one, zero and a positive one.
QuantityInputs == {0 - 1, 0, 1}

NextShop ==
  \/ \E p \in Procs : GetCartFindOne(p, "u1")
  \/ \E p \in Procs, productId \in Products, quantity \in QuantityInputs \ {0} :
        AtcFindOne(p, "u1", productId, quantity, PriceOf(productId))
  \/ \E p \in Procs : AtcCreate(p)
  \/ \E p \in Procs : AtcSave(p)
  \/ \E p \in Procs, productId \in Products, quantity \in QuantityInputs :
        UciFind(p, "u1", productId, quantity)
  \/ \E p \in Procs : UciSave(p)
  \/ \E p \in Procs, productId \in Products : RfcFind(p, "u1", productId)
  \/ \E p \in Procs : RfcSave(p)
  \/ \E p \in Procs : CcFind(p, "u1")
  \/ \E p \in Procs : CcSave(p)
  \/ \E p \in Procs : GetWishlistFindOne(p, "u1")
  \/ \E p \in Procs, productId \in Products :
        AtwFindOne(p, "u1", productId, PriceOf(productId))
  \/ \E p \in Procs : WlCreate(p)
  \/ \E p \in Procs : AtwSave(p)
  \/ \E p \in Procs, productId \in Products : RfwFind(p, "u1", productId)
  \/ \E p \in Procs : RfwSave(p)
  \/ \E p \in Procs, productId \in Products : MtcFindWishlist(p, "u1", productId)
  \/ \E p \in Procs : MtcSaveWishlist(p)
  \/ \E p \in Procs : MtcFindCart(p)
  \/ \E p \in Procs : MtcGetWishlist(p)
  \/ \E p \in Procs : Respond(p)

SpecShop == Init /\ [][NextShop]_vars

(***************************************************************************)
(* User administration: the accounts sign in and their session cookies are *)
(* refreshed; customer u1 checks out one order in the customer's request   *)
(* slot, and the other accounts send requests to the user routes under     *)
(* /api/admin in the other slot.                                           *)
(***************************************************************************)
NextAdmin ==
  \/ \E a \in Accounts : SignIn(a)
  \/ \E a \in Accounts : RefreshSession(a)
  \/ /\ Authenticated("u1") /\ intents = <<>> /\ CartQty("u1") = 0
     /\ AtcFindOne(Customer, "u1", 1, 1, PriceOf(1))
  \/ AtcCreate(Customer)
  \/ AtcSave(Customer)
  \/ /\ Authenticated("u1") /\ Len(intents) + IntentsInFlight < MaxOrders
     /\ CpiFindCart(Customer, "u1", "home")
  \/ CpiCreate(Customer)
  \/ \E pi \in 1..MaxOrders :
        Authenticated("u1") /\ CoRetrieve(Customer, "u1", pi, "home")
  \/ CoFindExisting(Customer)
  \/ CoFindCart(Customer)
  \/ CoCreate(Customer)
  \/ CoClearCart(Customer)
  \/ Respond(Customer)
  \/ \E i \in 1..MaxOrders : StripePay(i)
  \/ \E a \in Accounts \ {"u1"}, userId \in Accounts, role \in Roles :
        UpdateUserRole(Admin, a, userId, role)
  \/ \E a \in Accounts \ {"u1"}, userId \in Accounts : DuCount(Admin, a, userId)
  \/ DuDelete(Admin)
  \/ Respond(Admin)

SpecAdmin == Init /\ [][NextAdmin]_vars

(***************************************************************************)
(* Access to the orders: customer u1 checks out one order and reads it in  *)
(* the customer's request slot; in the other slot customer u2 and the      *)
(* administrator a1 confirm the payment, read orders and send status       *)
(* updates to the route of the orders and to the admin route.              *)
(***************************************************************************)
NextOrderAccess ==
  \/ \E a \in Accounts : SignIn(a)
  \/ /\ Authenticated("u1") /\ intents = <<>> /\ CartQty("u1") = 0
     /\ AtcFindOne(Customer, "u1", 1, 1, PriceOf(1))
  \/ AtcCreate(Customer)
  \/ AtcSave(Customer)
  \/ /\ Authenticated("u1") /\ Len(intents) + IntentsInFlight < MaxOrders
     /\ CpiFindCart(Customer, "u1", "home")
  \/ CpiCreate(Customer)
  \/ \E pi \in 1..MaxOrders :
        Authenticated("u1") /\ CoRetrieve(Customer, "u1", pi, "home")
  \/ CoFindExisting(Customer)
  \/ CoFindCart(Customer)
  \/ CoCreate(Customer)
  \/ CoClearCart(Customer)
  \/ Respond(Customer)
  \/ \E i \in 1..MaxOrders : StripePay(i)
  \/ \E id \in 1..MaxOrders : GetOrder(Customer, "u1", id)
  \/ GetUserOrders(Customer, "u1")
  \/ \E pi \in 1..MaxOrders :
        Authenticated("u2") /\ CoRetrieve(Admin, "u2", pi, "home")
  \/ CoFindExisting(Admin)
  \/ CoFindCart(Admin)
  \/ \E a \in Accounts \ {"u1"}, id \in 1..MaxOrders : GetOrder(Admin, a, id)
  \/ \E a \in Accounts \ {"u1"} : GetUserOrders(Admin, a)
  \/ \E route \in {"orders", "admin"}, a \in Accounts \ {"u1"},
        id \in 1..MaxOrders, s \in OrderStatuses :
        RouteUpdateOrderStatus(Admin, route, a, id, s)
  \/ UosUpdate(Admin)
  \/ Respond(Admin)

SpecOrderAccess == Init /\ [][NextOrderAccess]_vars

(***************************************************************************)
(* Properties.                                                             *)
(***************************************************************************)
\* The step is request slot p taking up a new request of the kind op.
Began(p, op) ==
  req[p].pc = "idle" /\ req'[p].pc # "idle" /\ req'[p].op = op

\* The step is the handler in slot p resuming from the await named pc.
Stepped(p, pc) == req[p].pc = pc /\ req'[p] # req[p]

\* The adjacency table of the order status as the specification states it.
AdjacencyTable(s) ==
  CASE s = "pending" -> {"processing", "cancelled"}
    [] s = "processing" -> {"shipped", "cancelled"}
    [] s = "shipped" -> {"delivered", "cancelled"}
    [] s \in {"delivered", "cancelled"} -> {}

\* C1: in every reachable state every order's statusHistory is non-empty and
\* the status of its last entry equals the order's orderStatus, whatever the
\* interleaving of createOrder, updateOrderStatus and bulkUpdateOrderStatus.
StatusHistoryEndsInOrderStatus ==
  \A i \in 1..Len(orders) :
    LET h == orders[i].statusHistory IN
      Len(h) >= 1 /\ h[Len(h)].status = orders[i].orderStatus

\* C1 witness: a single update cancelled the order and a bulk update that
\* had read it before then shipped it.
RacingUpdatesBothApplied ==
  \E i \in 1..Len(orders) :
    LET h == orders[i].statusHistory IN
      /\ Len(h) = 4
      /\ h[3] = [status |-> "cancelled", note |-> "Order cancelled"]
      /\ h[4] = [status |-> "shipped", note |-> "Bulk update: Order shipped"]

\* C2: an updateOrderStatus request whose status is not in the adjacency
\* table for the order's current status ends in the invalid-transition error
\* naming the current and the requested status, and changes no order.
InvalidTransitionRejected ==
  [][\A p \in Procs :
       LET r == req'[p]
           id == r.orderIds[1]
       IN (/\ Began(p, "updateOrderStatus")
           /\ id \in 1..Len(orders)
           /\ r.status \notin AdjacencyTable(orders[id].orderStatus))
          => /\ r.pc = "done"
             /\ r.res.kind = "error"
             /\ r.res.error = "Invalid status transition"
             /\ r.res.from = orders[id].orderStatus
             /\ r.res.to = r.status
             /\ orders' = orders]_vars

\* C2 witness: a request to move a shipped order back to processing was
\* answered with the invalid-transition error.
ShippedToProcessingRejected ==
  \E p \in Procs :
    /\ req[p].pc = "done"
    /\ req[p].op = "updateOrderStatus"
    /\ req[p].res.error = "Invalid status transition"
    /\ req[p].res.from = "shipped"
    /\ req[p].res.to = "processing"
    /\ IsSome(req[p].trackingInfo)

\* C3: once an order's orderStatus is delivered or cancelled, it never
\* changes again.
TerminalStatusNeverChanges ==
  [][\A i \in 1..Len(orders) :
       orders[i].orderStatus \in {"delivered", "cancelled"}
         => orders'[i].orderStatus = orders[i].orderStatus]_vars

\* C4: an updateOrderStatus request whose status is in the adjacency table
\* for the order's current status is accepted, and its update sets
\* orderStatus to the requested status and appends exactly one history entry
\* with that status and the caller's note, or 'Order {status}' without one,
\* keeping the earlier entries.
ValidTransitionApplied ==
  [][\A p \in Procs :
       /\ LET r == req'[p]
              id == r.orderIds[1]
          IN (/\ Began(p, "updateOrderStatus")
              /\ id \in 1..Len(orders)
              /\ r.status \in AdjacencyTable(orders[id].orderStatus))
             => r.pc = "uos_update" /\ orders' = orders
       /\ LET r == req[p]
              id == r.orderIds[1]
          IN Stepped(p, "uos_update")
             => /\ orders'[id].orderStatus = r.status
                /\ orders'[id].statusHistory =
                     Append(orders[id].statusHistory,
                            [status |-> r.status,
                             note |-> IF r.note \in {None, Some("")}
                                        THEN OrderNote(r.status)
                                        ELSE Get(r.note)])
                /\ req'[p].pc = "done"
                /\ req'[p].res = Ok(id)]_vars

\* C4 witness: an order shipped with the caller's note and then delivered
\* without a note.
ShippedWithNoteThenDelivered ==
  \E i \in 1..Len(orders) :
    LET h == orders[i].statusHistory IN
      /\ Len(h) = 4
      /\ h[3] = [status |-> "shipped", note |-> "Left warehouse"]
      /\ h[4] = [status |-> "delivered", note |-> "Order delivered"]

\* C5: a createOrder call for a payment intent that already has an order
\* passes the payment check, returns that order's id and changes neither
\* the orders nor the carts; every id createOrder returns is the id of the
\* one order of the confirmed intent.
ConfirmTwiceReturnsSameOrder ==
  [][\A p \in Procs :
       /\ (Began(p, "createOrder") /\ OrdersOfIntent(req'[p].pi) # {})
            => /\ req'[p].pc = "co_findExisting"
               /\ orders' = orders /\ carts' = carts
       /\ (Stepped(p, "co_findExisting") /\ OrdersOfIntent(req[p].pi) # {})
            => /\ req'[p].pc = "done"
               /\ req'[p].res.kind = "ok"
               /\ orders' = orders /\ carts' = carts
       /\ (req'[p].pc = "done" /\ req'[p].op = "createOrder"
             /\ req'[p].res.kind = "ok")
            => OrdersOfIntent(req'[p].pi) = {req'[p].res.orderId}]_vars

\* C5 witness: a confirmation returns the order of its intent while the
\* cart holds an item that was added after the order was created.
SecondConfirmKeepsCart ==
  \E p \in Procs :
    /\ req[p].pc = "done"
    /\ req[p].op = "createOrder"
    /\ req[p].res.kind = "ok"
    /\ OrdersOfIntent(req[p].pi) = {req[p].res.orderId}
    /\ IsSome(carts[req[p].userId])
    /\ Len(Get(carts[req[p].userId]).items) > 0

\* C6: in every reachable state at most one order exists per paymentIntentId.
OneOrderPerIntent ==
  \A pi \in 0..MaxIntents : Cardinality(OrdersOfIntent(pi)) <= 1

\* C6 witness: of two concurrent confirmations of one intent, the second
\* insert was refused by the unique index.
ConcurrentConfirmRefused ==
  \E p \in Procs :
    /\ req[p].pc = "done"
    /\ req[p].op = "createOrder"
    /\ req[p].res.error = "E11000 duplicate key"
    /\ Cardinality(OrdersOfIntent(req[p].pi)) = 1

\* C7: createOrder fails with 'Payment not completed' when the intent is
\* not succeeded and with 'Cart is empty' when the cart is missing or empty
\* at confirmation time, and up to and including such a failure the call
\* changes neither the orders nor the carts.
FailedConfirmChangesNothing ==
  [][\A p \in Procs :
       /\ (/\ Began(p, "createOrder")
           /\ req'[p].pi \in 1..Len(intents)
           /\ intents[req'[p].pi].status # "succeeded")
            => /\ req'[p].pc = "done"
               /\ req'[p].res.kind = "error"
               /\ req'[p].res.error = "Payment not completed"
       /\ (/\ Stepped(p, "co_findCart")
           /\ \/ ~IsSome(carts[req[p].userId])
              \/ Len(Get(carts[req[p].userId]).items) = 0)
            => /\ req'[p].pc = "done"
               /\ req'[p].res.kind = "error"
               /\ req'[p].res.error = "Cart is empty"
       /\ (/\ req'[p] # req[p]
           /\ req'[p].op = "createOrder"
           /\ req[p].pc \in {"idle", "co_findExisting", "co_findCart"})
            => orders' = orders /\ carts' = carts]_vars

\* C7 witness: a confirmation of a succeeded intent failed on the empty cart
\* that an earlier order had left behind.
ConfirmFailedOnEmptyCart ==
  \E p \in Procs :
    /\ req[p].pc = "done"
    /\ req[p].op = "createOrder"
    /\ req[p].res.error = "Cart is empty"
    /\ intents[req[p].pi].status = "succeeded"
    /\ Len(orders) = 1

\* C8: createPaymentIntent for a user whose cart is missing or has no items
\* ends in the empty-cart error without a call to the payment provider.
EmptyCartIntentRejected ==
  [][\A p \in Procs :
       (/\ Began(p, "createPaymentIntent")
        /\ \/ ~IsSome(carts[req'[p].userId])
           \/ Len(Get(carts[req'[p].userId]).items) = 0)
         => /\ req'[p].pc = "done"
            /\ req'[p].res.kind = "error"
            /\ req'[p].res.error = "Cart is empty"
            /\ intents' = intents]_vars

\* C8 witness: the request was refused for a cart that exists and is empty.
IntentRefusedForEmptiedCart ==
  \E p \in Procs :
    /\ req[p].pc = "done"
    /\ req[p].op = "createPaymentIntent"
    /\ req[p].res.error = "Cart is empty"
    /\ IsSome(carts[req[p].userId])

\* C9: every order newly created has paymentStatus paid, orderStatus
\* processing and the two history entries pending 'Order placed' and
\* processing 'Payment confirmed', in this order.
NewOrderIsPaidAndProcessing ==
  [][Len(orders') > Len(orders)
       => LET o == orders'[Len(orders')] IN
            /\ Len(orders') = Len(orders) + 1
            /\ o.paymentStatus = "paid"
            /\ o.orderStatus = "processing"
            /\ o.statusHistory =
                 << [status |-> "pending", note |-> "Order placed"],
                    [status |-> "processing", note |-> "Payment confirmed"] >>]_vars

\* C9 witness: a second order has just been created.
SecondOrderJustCreated ==
  \E p \in Procs : req[p].pc = "co_clearCart" /\ req[p].res = Ok(2)

\* C10: the items of a newly created order are the items of the cart as the
\* call read it; the call's next step leaves the user's cart with no items
\* and zero totals; and no other step of createOrder changes a cart.
OrderSnapshotsCartThenClearsIt ==
  [][\A p \in Procs :
       /\ (Stepped(p, "co_create") /\ Len(orders') > Len(orders))
            => LET o == orders'[Len(orders')]
                   read == Get(req[p].cart).items
               IN /\ Len(o.items) = Len(read)
                  /\ \A k \in 1..Len(read) :
                       /\ o.items[k].productId = read[k].productId
                       /\ o.items[k].quantity = read[k].quantity
                       /\ o.items[k].price = read[k].price
                  /\ req'[p].pc = "co_clearCart"
       /\ Stepped(p, "co_clearCart")
            => LET c == Get(carts'[req[p].userId]) IN
                 c.items = <<>> /\ c.totalItems = 0 /\ c.totalPrice = 0
       /\ (req'[p] # req[p] /\ req'[p].op = "createOrder" /\ carts' # carts)
            => req[p].pc = "co_clearCart" /\ req[p].res.kind = "ok"]_vars

\* C10 witness: the call that created an order of two lines has cleared the
\* cart.
TwoLineOrderClearedCart ==
  \E p \in Procs :
    /\ req[p].pc = "done"
    /\ req[p].op = "createOrder"
    /\ req[p].res.kind = "ok"
    /\ Len(orders[req[p].res.orderId].items) = 2
    /\ Get(carts[req[p].userId]).items = <<>>
    /\ Get(carts[req[p].userId]).totalPrice = 0

\* The statuses of a status history, in order.
StatusesOf(h) == [k \in 1..Len(h) |-> h[k].status]

\* C11: in every reachable state an order has trackingInfo set only if its
\* statusHistory contains a shipped entry; a transition to another status
\* with trackingInfo in the payload does not set it.
TrackingOnlyOnceShipped ==
  \A i \in 1..Len(orders) :
    IsSome(orders[i].trackingInfo)
      => \E k \in 1..Len(orders[i].statusHistory) :
           orders[i].statusHistory[k].status = "shipped"

\* The step is the bulk update in slot p sending its response.
BulkFinished(p) ==
  /\ req[p].pc \in {"idle", "bulk_findById", "bulk_update"}
  /\ req'[p].op = "bulkUpdateOrderStatus"
  /\ req'[p].pc = "done"

\* The history entries added to the orders since the bulk call in slot p
\* began, counted in the state after the step.
RECURSIVE EntriesAddedFrom(_, _)
EntriesAddedFrom(before, i) ==
  IF i > Len(before) THEN 0
  ELSE (Len(orders'[i].statusHistory) - before[i].entries)
         + EntriesAddedFrom(before, i + 1)

SingleFor(id, status) ==
  [Begin("updateOrderStatus") EXCEPT !.orderIds = <<id>>, !.status = status]

\* C13: processing an id in bulkUpdateOrderStatus succeeds exactly when
\* updateOrderStatus with the same id and status (no tracking info) succeeds
\* on the same orders, and the two writes leave the same orderStatus and the
\* same sequence of statusHistory statuses.
BulkIsSinglePerId ==
  [][\A p \in Procs :
       LET r == req'[p]
           k == IF req[p].pc = "idle" THEN 1 ELSE req[p].idx
           id == r.orderIds[k]
           failedBefore == IF req[p].pc = "idle" THEN 0 ELSE req[p].failed
           failedAfter == IF r.pc = "done" THEN r.res.failed ELSE r.failed
       IN /\ (/\ req[p].pc \in {"idle", "bulk_findById"}
              /\ r.op = "bulkUpdateOrderStatus"
              /\ r # req[p])
             => /\ (r.pc = "bulk_update")
                     <=> (UosCheck(SingleFor(id, r.status)).pc = "uos_update")
                /\ (r.pc # "bulk_update") <=> (failedAfter = failedBefore + 1)
                /\ orders' = orders
          /\ Stepped(p, "bulk_update")
             => LET i == req[p].orderIds[req[p].idx]
                    single == ApplyUpdate(orders[i], req[p].status,
                                NoteOr(None, OrderNote(req[p].status)), None)
                IN /\ orders'[i].orderStatus = single.orderStatus
                   /\ StatusesOf(orders'[i].statusHistory)
                        = StatusesOf(single.statusHistory)
                   /\ \A j \in 1..Len(orders) : j # i => orders'[j] = orders[j]]_vars

\* C13 witness: a bulk update named one order twice; the first turn shipped
\* it and the second was refused, as the single-order update would be.
BulkShippedOnceRefusedOnce ==
  \E p \in Procs :
    /\ req[p].pc = "done"
    /\ req[p].op = "bulkUpdateOrderStatus"
    /\ req[p].orderIds = <<1, 1>>
    /\ req[p].status = "shipped"
    /\ req[p].res.updated = 1
    /\ req[p].res.failed = 1
    /\ req[p].res.errors[1].from = "shipped"

\* C14: statusHistory is append-only: in every step the statusHistory of
\* every order is a prefix of its statusHistory after the step, and a step
\* that changes an order's orderStatus appends exactly one entry, which
\* carries the new status.
StatusHistoryAppendOnly ==
  [][\A i \in 1..Len(orders) :
       LET h == orders[i].statusHistory
           g == orders'[i].statusHistory
       IN /\ Len(orders') >= Len(orders)
          /\ Len(g) >= Len(h)
          /\ SubSeq(g, 1, Len(h)) = h
          /\ orders'[i].orderStatus # orders[i].orderStatus
               => /\ Len(g) = Len(h) + 1
                  /\ g[Len(g)].status = orders'[i].orderStatus]_vars

\* C14 witness: a bulk update shipped the order and a single update then
\* delivered it, each adding its entry after the two of the creation.
BulkThenSingleEntries ==
  \E i \in 1..Len(orders) :
    LET h == orders[i].statusHistory IN
      /\ Len(h) = 4
      /\ h[1].status = "pending"
      /\ h[3].note = "Bulk update: Order shipped"
      /\ h[4].note = "Order delivered"

\* C15: after an order is created no step changes its items, subtotal, tax,
\* shipping, totalPrice, shippingAddress, userId or paymentIntentId, and no
\* step removes an order.
OrderSnapshotImmutable ==
  [][/\ Len(orders') >= Len(orders)
     /\ \A i \in 1..Len(orders) :
          /\ orders'[i].items = orders[i].items
          /\ orders'[i].totalItems = orders[i].totalItems
          /\ orders'[i].subtotal = orders[i].subtotal
          /\ orders'[i].tax = orders[i].tax
          /\ orders'[i].shipping = orders[i].shipping
          /\ orders'[i].totalPrice = orders[i].totalPrice
          /\ orders'[i].shippingAddress = orders[i].shippingAddress
          /\ orders'[i].userId = orders[i].userId
          /\ orders'[i].paymentIntentId = orders[i].paymentIntentId]_vars

\* C15 witness: the order still shows the price paid after it was cancelled,
\* its payment was reported failed and the product went into the cart again
\* at a higher price.
CancelledOrderKeepsPricePaid ==
  /\ Len(orders) = 1
  /\ orders[1].orderStatus = "cancelled"
  /\ orders[1].paymentStatus = "failed"
  /\ orders[1].items[1].price = PriceOf(1)
  /\ orders[1].totalPrice = TotalOf(PriceOf(1))
  /\ IsSome(carts["u1"])
  /\ Len(Get(carts["u1"]).items) = 1
  /\ Get(carts["u1"]).items[1].price = LaterPriceOf(1)

\* C16: a webhook event changes at most the paymentStatus of the one order
\* whose paymentIntentId is that of a payment_intent.payment_failed event,
\* which becomes failed; it changes the orderStatus, statusHistory and
\* trackingInfo of no order, and a payment_intent.succeeded or unknown event
\* changes nothing.
WebhookOnlySetsPaymentFailed ==
  [][\A type \in WebhookEvents, pi \in 0..MaxOrders :
       HandleWebhook(type, pi)
         => /\ Len(orders') = Len(orders)
            /\ carts' = carts /\ intents' = intents
            /\ \A i \in 1..Len(orders) :
                 /\ orders'[i].orderStatus = orders[i].orderStatus
                 /\ orders'[i].statusHistory = orders[i].statusHistory
                 /\ orders'[i].trackingInfo = orders[i].trackingInfo
                 /\ orders'[i] # orders[i]
                      => /\ type = "payment_intent.payment_failed"
                         /\ orders[i].paymentIntentId = pi
                         /\ orders'[i] = [orders[i] EXCEPT
                                            !.paymentStatus = "failed"]
            /\ type # "payment_intent.payment_failed" => orders' = orders]_vars

\* C16 witness: the payment of a shipped order with tracking info was
\* reported failed, and the order is still shipped.
ShippedOrderPaymentFailed ==
  \E i \in 1..Len(orders) :
    /\ orders[i].paymentStatus = "failed"
    /\ orders[i].orderStatus = "shipped"
    /\ IsSome(orders[i].trackingInfo)
    /\ Len(orders[i].statusHistory) = 3

\* The distance between two amounts.
Dist(a, b) == IF a >= b THEN a - b ELSE b - a

\* The cart of the claim's example: 10.00 x 2 and 5.00 x 1.
ExampleItems ==
  << [productId |-> 1, quantity |-> 2, price |-> 1000],
     [productId |-> 2, quantity |-> 1, price |-> 500] >>

\* C17: for every non-empty cart createPaymentIntent and createOrder take
\* subtotal = sum of price x quantity over the cart's items, tax = a tenth
\* of the subtotal to the nearest cent, shipping = 0 and total = subtotal +
\* tax + shipping, none negative; the intent's amount is that total; the
\* example cart gives 25.00, 2.50, 0 and 27.50.
TotalsFollowCartItems ==
  [][\A p \in Procs :
       /\ (/\ Began(p, "createPaymentIntent")
           /\ IsSome(carts[req'[p].userId])
           /\ Len(Get(carts[req'[p].userId]).items) > 0)
            => LET items == Get(carts[req'[p].userId]).items
                   tax == req'[p].amount - SumPrice(items)
               IN /\ req'[p].pc = "cpi_create"
                  /\ tax >= 0
                  /\ Dist(10 * tax, SumPrice(items)) <= 5
                  /\ items = ExampleItems => req'[p].amount = 2750
       /\ Stepped(p, "cpi_create")
            => /\ Len(intents') = Len(intents) + 1
               /\ intents'[Len(intents')].amount = req[p].amount
       /\ (Stepped(p, "co_create") /\ Len(orders') > Len(orders))
            => LET o == orders'[Len(orders')]
                   items == Get(req[p].cart).items
               IN /\ o.subtotal = SumPrice(items)
                  /\ Dist(10 * o.tax, o.subtotal) <= 5
                  /\ o.shipping = 0
                  /\ o.totalPrice = o.subtotal + o.tax + o.shipping
                  /\ o.subtotal >= 0 /\ o.tax >= 0 /\ o.totalPrice >= 0
                  /\ items = ExampleItems
                       => /\ o.subtotal = 2500 /\ o.tax = 250
                          /\ o.totalPrice = 2750]_vars

\* The last set of the key stands: the key was not deleted, cleared or
\* swept since.
Standing(key) == IsSome(latest[key]) /\ ~Get(latest[key]).swept

\* The expiry of a set as the claim words it: the time of the set plus its
\* ttl, or plus the default TTL when the ttl was omitted.
ExpiryAsStated(l) ==
  l.at + (IF IsSome(l.ttl) THEN Get(l.ttl) * 1000 ELSE DefaultTTLSeconds * 1000)

\* The same with a ttl of 0 counted as omitted.
ExpiryZeroAsOmitted(l) ==
  l.at + (IF IsSome(l.ttl) /\ Get(l.ttl) # 0
            THEN Get(l.ttl) * 1000 ELSE DefaultTTLSeconds * 1000)

\* A get that misses leaves its key absent from the store.
MissLeavesKeyAbsent ==
  [][\A k \in CacheKeys :
       (CacheGet(k) /\ GetResult(k) = None) => ~IsSome(cache'[k])]_vars

\* C18 as stated: get(key) returns the value of the most recent set exactly
\* when that set stands and now <= its time + ttl (+ the default TTL when
\* the ttl was omitted), and otherwise misses and leaves the key absent.
GetReturnsLatestSetUntilExpiry ==
  /\ [](\A k \in CacheKeys :
          GetResult(k) =
            IF Standing(k) /\ now <= ExpiryAsStated(Get(latest[k]))
              THEN Some(Get(latest[k]).data) ELSE None)
  /\ MissLeavesKeyAbsent

\* C18 amended: the same, with the default TTL also taken for a ttl of 0.
GetReturnsLatestSetZeroTtlIsDefault ==
  /\ [](\A k \in CacheKeys :
          GetResult(k) =
            IF Standing(k) /\ now <= ExpiryZeroAsOmitted(Get(latest[k]))
              THEN Some(Get(latest[k]).data) ELSE None)
  /\ MissLeavesKeyAbsent

\* C18 witness: a key set for one second was read 1100 ms after the set,
\* and the read removed it from the store.
ReadAfterOneSecondRemovedKey ==
  \E k \in CacheKeys :
    /\ IsSome(latest[k])
    /\ ~Get(latest[k]).swept
    /\ Get(latest[k]).ttl = Some(1)
    /\ now = Get(latest[k]).at + 1100
    /\ ~IsSome(cache[k])

\* C19: a run of the sweep removes every entry with now > expiry and no
\* entry with now <= expiry, read or not, and adds none; a key that get
\* would have returned before the run is returned after it.
SweepRemovesExactlyExpired ==
  [][sweepDue' # sweepDue
       => /\ now' = now
          /\ \A k \in CacheKeys :
               /\ ~IsSome(cache[k]) => ~IsSome(cache'[k])
               /\ (IsSome(cache[k]) /\ now > Get(cache[k]).expiry)
                    => ~IsSome(cache'[k])
               /\ (IsSome(cache[k]) /\ now <= Get(cache[k]).expiry)
                    => cache'[k] = cache[k]
               /\ GetResultIn(cache', now', k) = GetResultIn(cache, now, k)]_vars

\* C19 witness: the sweep has just removed an expired entry nobody had read
\* and kept one that expires at this very moment.
SweepKeptEntryAtItsExpiry ==
  \E k1, k2 \in CacheKeys :
    /\ sweepDue = now + SweepInterval
    /\ IsSome(latest[k1]) /\ Get(latest[k1]).swept
    /\ ~IsSome(cache[k1])
    /\ IsSome(cache[k2])
    /\ Get(cache[k2]).expiry = now

\* C20: once no cart mutation of a user is under way, the stored cart has
\* totalItems equal to the sum of its items' quantities and totalPrice equal
\* to the sum of price times quantity over its items.
CartTotalsMatchItems ==
  \A u \in Users :
    (/\ IsSome(carts[u])
     /\ \A p \in Procs : req[p].pc \in {"idle", "done"} \/ req[p].userId # u)
      => /\ Get(carts[u]).totalItems = SumQty(Get(carts[u]).items)
         /\ Get(carts[u]).totalPrice = SumPrice(Get(carts[u]).items)

\* C24: in every order's statusHistory each entry after the first follows
\* its predecessor by a transition of the adjacency table, whatever the
\* interleaving of updateOrderStatus and bulkUpdateOrderStatus requests.
HistoryFollowsAdjacencyTable ==
  \A i \in 1..Len(orders) :
    LET h == orders[i].statusHistory IN
      \A k \in 1..(Len(h) - 1) : h[k + 1].status \in AdjacencyTable(h[k].status)

\* C25: every order's totalPrice is the amount of the payment intent whose
\* id is stored in its paymentIntentId, whatever happened to the cart
\* between createPaymentIntent and createOrder.
OrderTotalIsIntentAmount ==
  \A i \in 1..Len(orders) :
    /\ orders[i].paymentIntentId \in 1..Len(intents)
    /\ orders[i].totalPrice = intents[orders[i].paymentIntentId].amount

\* C21: no user ever has two wishlists, and a create for a user who has a
\* cart or a wishlist by then fails with the duplicate-key error and stores
\* nothing, so that two interleaved first accesses leave one collection; a
\* first access creates the empty collection, a stored collection is never
\* replaced by another document, and getCart and getWishlist on a stored
\* collection answer with it and store nothing.
OneCartAndOneWishlistPerUser ==
  /\ [](\A u \in Users : Cardinality(WishlistIds(u)) <= 1)
  /\ [][/\ \A u \in Users : IsSome(carts[u]) => IsSome(carts'[u])
        /\ Len(wishlists') >= Len(wishlists)
        /\ \A k \in 1..Len(wishlists) : wishlists'[k].userId = wishlists[k].userId
        /\ \A p \in Procs :
             LET u == req[p].userId IN
               /\ Stepped(p, "atc_create") =>
                    IF IsSome(carts[u])
                      THEN /\ carts' = carts
                           /\ req'[p].res = Fail("E11000 duplicate key")
                      ELSE carts' = [carts EXCEPT ![u] = Some(EmptyCartDoc)]
               /\ Stepped(p, "wl_create") =>
                    IF WishlistIds(u) # {}
                      THEN /\ wishlists' = wishlists
                           /\ req'[p].res = Fail("E11000 duplicate key")
                      ELSE wishlists' = Append(wishlists, EmptyWishlistDoc(u))
        /\ \A p \in Procs :
             LET u == req'[p].userId IN
               /\ (Began(p, "getCart") /\ IsSome(carts[u]))
                    => carts' = carts /\ req'[p].res.kind = "ok"
               /\ (Began(p, "getWishlist") /\ WishlistIds(u) # {})
                    => wishlists' = wishlists /\ req'[p].res.kind = "ok"
               /\ (Began(p, "getCart") \/ Began(p, "addToCart")) /\ ~IsSome(carts[u])
                    => carts' = carts /\ req'[p].pc = "atc_create"
               /\ (Began(p, "getWishlist") \/ Began(p, "addToWishlist"))
                    /\ WishlistIds(u) = {}
                    => wishlists' = wishlists /\ req'[p].pc = "wl_create"]_vars

\* C21 witness: of two interleaved first accesses to the wishlist one has
\* created it and the other is answered with the duplicate-key error; the
\* cart has been created by a first access as well.
SecondFirstAccessRefused ==
  /\ IsSome(carts["u1"])
  /\ Get(carts["u1"]).v = 0
  /\ Len(wishlists) = 1
  /\ \E p \in Procs :
       /\ req[p].pc = "done"
       /\ req[p].op = "getWishlist"
       /\ req[p].res = Fail("E11000 duplicate key")

\* No two lines of the items have the same productId.
DistinctProducts(items) ==
  \A i, j \in 1..Len(items) : items[i].productId = items[j].productId => i = j

\* C27: no cart and no wishlist holds two lines with the same productId, and
\* every cart line has a quantity of at least 1.
LinesDistinctAndPositive ==
  /\ \A u \in Users :
       IsSome(carts[u]) => /\ DistinctProducts(Get(carts[u]).items)
                           /\ ValidCartItems(Get(carts[u]).items)
  /\ \A k \in 1..Len(wishlists) : DistinctProducts(wishlists[k].items)

\* The product has a line in the items.
HasProduct(items, productId) == FindIndex(items, productId) > 0

\* The items of the wishlist of u; none without a wishlist.
WishlistItemsIn(ws, u) ==
  IF \E k \in 1..Len(ws) : ws[k].userId = u
    THEN ws[CHOOSE k \in 1..Len(ws) : ws[k].userId = u].items
    ELSE <<>>

\* C28: a moveToCart request for a product that is not in the wishlist is
\* answered 404 and changes nothing; its wishlist save removes the product
\* from the wishlist and its cart save leaves the product in the cart, as a
\* new line of quantity 1 or with the loaded line's quantity + 1; and a
\* request that fails has changed nothing: when its wishlist save fails
\* nothing is written, and when addToCart fails after it the product is
\* still in the wishlist.
MoveToCartNeverLosesItem ==
  [][\A p \in Procs :
       /\ (Began(p, "moveToCart") /\ req'[p].pc = "done")
            => /\ req'[p].res.code = 404
               /\ wishlists' = wishlists /\ carts' = carts
       /\ req[p].op = "moveToCart" =>
            LET u == req[p].userId
                productId == Get(req[p].item).productId
            IN /\ (Stepped(p, "mtc_saveWishlist") /\ req'[p].pc # "done")
                    => ~HasProduct(WishlistItemsIn(wishlists', u), productId)
               /\ (Stepped(p, "atc_save") /\ req'[p].pc # "done")
                    => LET old == Get(req[p].cart).items
                           new == Get(carts'[u]).items
                       IN \E k \in 1..Len(new) :
                            /\ new[k].productId = productId
                            /\ new[k].quantity =
                                 IF HasProduct(old, productId)
                                   THEN old[FindIndex(old, productId)].quantity + 1
                                   ELSE 1
               /\ (Stepped(p, "mtc_saveWishlist") /\ req'[p].pc = "done")
                    => wishlists' = wishlists /\ carts' = carts
               /\ (req[p].pc \in {"mtc_findCart", "atc_create", "atc_save"}
                     /\ req'[p].pc = "done" /\ req'[p].res.kind = "error")
                    => HasProduct(WishlistItemsIn(wishlists', u), productId)]_vars

\* C22: every request to a route under /api/admin is rejected with 401 when
\* it carries no valid session and with 403 when the session user's role is
\* not admin; in both cases the handler is not run: the request is answered
\* at once, the answer carries no order, and no user and no order changes.
AdminRoutesRejectAtTheGate ==
  [][\A p \in Procs :
       (/\ req[p].pc = "idle"
        /\ req'[p].pc # "idle"
        /\ req'[p].route = "admin"
        /\ (~IsSome(req'[p].session) \/ Get(req'[p].session).role # "admin"))
         => /\ req'[p].pc = "done"
            /\ req'[p].res.kind = "error"
            /\ req'[p].res.code = IF IsSome(req'[p].session) THEN 403 ELSE 401
            /\ req'[p].res.orderId = 0
            /\ req'[p].res.found = {}
            /\ users' = users
            /\ orders' = orders]_vars

\* A signed-in customer has asked an admin route to change a user that
\* exists and is not the customer, and was answered 403.
CustomerRefusedOnAdminRoute ==
  \E p \in Procs :
    /\ req[p].pc = "done"
    /\ req[p].route = "admin"
    /\ IsSome(req[p].session)
    /\ Get(req[p].session).role = "customer"
    /\ req[p].target # req[p].userId
    /\ IsSome(users[req[p].target])
    /\ req[p].res.code = 403

\* C23: updating an order's status is admin-only: on the route of the orders
\* and on the admin route, no step of an updateOrderStatus request that
\* carries the session of a user whose role is not admin changes the
\* orderStatus or the statusHistory of any order.
StatusUpdateIsAdminOnly ==
  [][\A p \in Procs :
       (/\ req'[p] # req[p]
        /\ \E r \in {req[p], req'[p]} :
              /\ r.op = "updateOrderStatus"
              /\ r.pc # "idle"
              /\ r.route \in {"orders", "admin"}
              /\ IsSome(r.session)
              /\ Get(r.session).role # "admin")
         => \A i \in 1..Len(orders) :
              /\ orders'[i].orderStatus = orders[i].orderStatus
              /\ orders'[i].statusHistory = orders[i].statusHistory]_vars

\* C26: no order operation of a non-admin user returns an order of another
\* user: the order that getOrder or createOrder (also on its already-exists
\* path) answers with, and every order getUserOrders lists, has the
\* requesting user's id as userId, and getOrder for another user's order
\* answers 404 without an order.
OrdersAnsweredToTheirOwner ==
  [][\A p \in Procs :
       (/\ req'[p] # req[p]
        /\ req'[p].pc = "done"
        /\ req'[p].op \in {"getOrder", "getUserOrders", "createOrder"})
         => /\ req'[p].res.orderId # 0
                 => orders'[req'[p].res.orderId].userId = req'[p].userId
            /\ \A i \in req'[p].res.found : orders'[i].userId = req'[p].userId
            /\ (/\ req'[p].op = "getOrder"
                /\ IsSome(req'[p].session)
                /\ req'[p].orderIds[1] \in 1..Len(orders)
                /\ orders[req'[p].orderIds[1]].userId # req'[p].userId)
                 => /\ req'[p].res.code = 404
                    /\ req'[p].res.orderId = 0]_vars

\* C29: deleteUser never deletes a user who has at least one order: such a
\* request is answered 400 and the users are unchanged, whether the order
\* was there when the request arrived or was created while it ran; so after
\* every step every order's userId refers to an existing user.
DeleteUserKeepsUsersWithOrders ==
  [][/\ \A p \in Procs :
          /\ (/\ Began(p, "deleteUser")
              /\ IsSome(req'[p].session)
              /\ Get(req'[p].session).role = "admin"
              /\ OrderCount(req'[p].target) > 0)
               => /\ req'[p].pc = "done"
                  /\ req'[p].res.code = 400
                  /\ users' = users
          /\ (/\ Stepped(p, "du_delete")
              /\ OrderCount(req[p].target) > 0)
               => /\ req'[p].res.code = 400
                  /\ users' = users
     /\ \A i \in 1..Len(orders') : IsSome(users'[orders'[i].userId])]_vars

\* C30: an admin cannot change their own role or delete their own account:
\* both requests are answered 400 and change no user; and after every step
\* of admin-authorized updateUserRole and deleteUser requests at least one
\* user with role admin remains.
AnAdminAlwaysRemains ==
  [][/\ \A p \in Procs :
          (/\ req[p].pc = "idle"
           /\ req'[p].op \in {"updateUserRole", "deleteUser"}
           /\ IsSome(req'[p].session)
           /\ Get(req'[p].session).role = "admin"
           /\ req'[p].target = req'[p].userId)
            => /\ req'[p].pc = "done"
               /\ req'[p].res.code = 400
               /\ users' = users
     /\ (\E a \in Accounts : IsSome(users[a]) /\ Get(users[a]).role = "admin")
          => \E a \in Accounts : IsSome(users'[a]) /\ Get(users'[a]).role = "admin"]_vars

====
